---- MODULE Spec2Model ----
(***************************************************************************)
(* A model of the devops-mlops-report scripts (.github/scripts): the       *)
(* commitHistory.csv ledger kept in a gist, its writers and readers, the   *)
(* SVG upload retry loop, the run_report step sequence and the cause       *)
(* classifier.                                                             *)
(*                                                                         *)
(* CSV text is modelled at the level of csv records: a document is a       *)
(* sequence of records, a record a sequence of cells, the first record the *)
(* header (a sequence of column names).  A cell is a sequence of tokens:   *)
(* <<>> is the empty string, <<"c1">> a one-word value, and a key=value    *)
(* cell such as "acc=0.80;loss=0.10" is <<"acc","=","0.80",";","loss",     *)
(* "=","0.10">>.  Paths are sequences of one-character strings.            *)
(***************************************************************************)
EXTENDS Integers, Sequences, FiniteSets, TLC

VARIABLES
    \* ---- the gist (remote store) and the ledger writers (phase2_step1/2 main)
    gist,        \* content of commitHistory.csv in the gist
    pc,          \* position of each CI run in main
    script,      \* which writer script the run executes
    row,         \* the row dict built by the run
    existing,    \* what the run read from the gist
    updated,     \* what the run computed to publish
    clock,       \* wall clock used for the timestamp column
    \* ---- the configuration and the readers of the ledger
    window,      \* report.trend_window of the config
    sharp_delta, \* report.sharp_delta of the config, as the scripts read it
    metric,      \* report.highlight_metric of the config
    svg,         \* what render_svg.py main computed from its read
    summary,     \* what generate_summary_md.py main computed from its read
    valsvg,      \* what render_val_accuracy_svg.py main computed and uploaded
    \* ---- the SVG upload of render_svg.py main
    rpc,         \* position of render_svg.py main
    attempt,     \* loop variable of the upload loop
    last_err,    \* last_err of the upload loop
    slept,       \* seconds spent in time.sleep so far
    svgFile,     \* content of trend_<metric>.svg in the gist
    since,       \* ledger contents the gist has held since the previous PATCH
    sentFresh,   \* every retry so far sent content built from one of them
    \* ---- run_report.py main and its child processes
    commit,      \* --sha / GITHUB_SHA of the invocation
    private,     \* repo_visibility of the config is "private"
    step,        \* position of run_report.py main
    argv,        \* options on the command line of the child being started
    log,         \* children run so far, in order, with their exit status
    trainedNow,  \* tr["trained"] of train.json
    localCsv,    \* commit ids in the commitHistory.csv of the working directory
    \* ---- detect_cause_mlops.classify_cause
    changed_files,
    script_paths,
    data_paths,
    REPO_HINTS,
    causeOut,    \* the cause classify_cause returned
    cpc,         \* "ready" before the call, "classified" after it
    \* ---- detect_cause_mlops.normalize_repo_rel_path called on its own
    norm_arg,    \* the path handed to the first call
    normalized,  \* what each call returned, each call taking the previous result
    \* ---- render_svg.moving_average called on its own
    ma_vals,     \* the argument vals
    ma_k,        \* the argument k
    ma_out,      \* what the call returned
    \* ---- append_commitHistory.py run on its own, several times
    csv_file,    \* commitHistory.csv of the working directory, as lines of fields
    calls,       \* the runs so far: the row each built, and its exit status
    \* ---- trigger_training.py run on its own
    tt_in,       \* --cause, the config, the checkout and what training will do
    tt_out,      \* the payload written to --out and the exit status
    \* ---- phase2_step2.classify_cause called on the classifier's inputs
    step2_cause, \* the cause it returned
    \* ---- prune_mlflow_runs.py run on its own
    pr_in,       \* the config, the MLflow store and how its calls will answer
    pr_out       \* the runs deleted and the exit status

ledgerVars == <<gist, pc, script, row, existing, updated, clock>>

readerVars == <<window, sharp_delta, metric, svg, summary, valsvg>>

retryVars == <<rpc, attempt, last_err, slept, svgFile, since, sentFresh>>

runVars == <<commit, private, step, argv, log, trainedNow, localCsv>>

classVars == <<changed_files, script_paths, data_paths, REPO_HINTS, causeOut, cpc,
              norm_arg, normalized>>

avgVars == <<ma_vals, ma_k, ma_out>>

\* the functions and scripts that are run on their own
localVars == <<csv_file, calls>>

trainVars == <<tt_in, tt_out>>

agreeVars == <<step2_cause>>

pruneVars == <<pr_in, pr_out>>

unitVars == <<avgVars, localVars, trainVars, agreeVars, pruneVars>>

offAvg == <<localVars, trainVars, agreeVars, pruneVars>>

offLocal == <<avgVars, trainVars, agreeVars, pruneVars>>

offTrain == <<avgVars, localVars, agreeVars, pruneVars>>

offAgree == <<ledgerVars, readerVars, retryVars, runVars, avgVars, localVars, trainVars,
              pruneVars>>

offPrune == <<avgVars, localVars, trainVars, agreeVars>>

vars == <<ledgerVars, readerVars, retryVars, runVars, classVars, unitVars>>

\* what the actions of one part leave alone
offLedger == <<readerVars, retryVars, runVars, classVars, unitVars>>

offRead == <<ledgerVars, retryVars, runVars, classVars, unitVars>>

offRetry == <<runVars, classVars, unitVars>>

offClass == <<ledgerVars, readerVars, retryVars, runVars, unitVars>>

offUnit == <<ledgerVars, readerVars, retryVars, runVars, classVars>>

-----------------------------------------------------------------------------
(* Bounds *)

NumRuns == 2

\* longest ledger the readers are run on
MaxRows == 3

\* rows other CI runs append while render_svg.py runs
MaxOtherRows == 2

\* longest ledger the trend arithmetic is run on
MaxTrendRows == 4

\* changed files of the commit; rules of one kind in the config
MaxChanged == 2
MaxRules == 1

-----------------------------------------------------------------------------
(* Generic helpers *)

Range(s) == {s[i] : i \in DOMAIN s}

\* python: None
NoneVal == <<"<None>">>

\* the empty string and a one-word string as cells
Empty == <<>>

W(word) == <<word>>

\* position of the last occurrence of k in sequence s (0 when absent)
LastPos(s, k) ==
    IF k \in Range(s) THEN CHOOSE i \in DOMAIN s : s[i] = k /\ \A j \in DOMAIN s : s[j] = k => j <= i
    ELSE 0

-----------------------------------------------------------------------------
(* csv.DictReader / csv.DictWriter as the scripts use them *)

\* gist file content: filename not in files -> None (get_gist_file_content)
Absent == [present |-> FALSE, recs |-> <<>>]

Text(recs) == [present |-> TRUE, recs |-> recs]

\* "existing_csv and existing_csv.strip()"
HasText(content) == content.present /\ content.recs # <<>>

\* one DictReader row: zip(fieldnames, record); a short record leaves the
\* missing keys at restval None, the surplus of a long record goes under
\* restkey None, which no field list names
DictOf(header, rec) ==
    [k \in Range(header) |->
        LET j == LastPos(header, k) IN IF j <= Len(rec) THEN rec[j] ELSE NoneVal]

\* r.get(k, "")
Get(d, k) == IF k \in DOMAIN d THEN d[k] ELSE Empty

\* csv.writer renders None as the empty field
Cell(v) == IF v = NoneVal THEN Empty ELSE v

\* the data rows csv.DictReader yields: records after the header, blank lines skipped
DictReaderRows(recs) ==
    LET data == SelectSeq(Tail(recs), LAMBDA r : r # <<>>)
    IN [i \in 1..Len(data) |-> DictOf(recs[1], data[i])]

\* writer.writerow({k: r.get(k, "") for k in fieldnames})
WriteRow(d, fieldnames) == [j \in 1..Len(fieldnames) |-> Cell(Get(d, fieldnames[j]))]

\* mutant of append_csv_row: existing records re-emitted by position, not by key
append_csv_row_positional(existing_csv, r, fieldnames) ==
    LET old == IF HasText(existing_csv) THEN Tail(existing_csv.recs) ELSE <<>>
    IN Text(<<fieldnames>>
            \o [i \in 1..Len(old) |->
                  [j \in 1..Len(fieldnames) |-> IF j <= Len(old[i]) THEN old[i][j] ELSE Empty]]
            \o <<WriteRow(r, fieldnames)>>)

\* mutant of append_csv_row: a stored header is kept instead of fieldnames
append_csv_row_stored_header(existing_csv, r, fieldnames) ==
    LET old == IF HasText(existing_csv) THEN DictReaderRows(existing_csv.recs) ELSE <<>>
        columns == IF HasText(existing_csv) THEN existing_csv.recs[1] ELSE fieldnames
    IN Text(<<columns>>
            \o [i \in 1..Len(old) |-> WriteRow(old[i], columns)]
            \o <<WriteRow(r, columns)>>)

\* phase2_step2.py append_csv_row
append_csv_row(existing_csv, r, fieldnames) ==
    LET old == IF HasText(existing_csv) THEN DictReaderRows(existing_csv.recs) ELSE <<>>
    IN Text(<<fieldnames>>
            \o [i \in 1..Len(old) |-> WriteRow(old[i], fieldnames)]
            \o <<WriteRow(r, fieldnames)>>)

\* phase2_step1.py append_csv_row: content whose first line holds no comma is
\* treated as absent before the same rewrite
append_csv_row_step1(existing_csv, r, fieldnames) ==
    LET kept == IF HasText(existing_csv) /\ Len(existing_csv.recs[1]) < 2
                THEN Absent ELSE existing_csv
        old == IF HasText(kept) THEN DictReaderRows(kept.recs) ELSE <<>>
    IN Text(<<fieldnames>>
            \o [i \in 1..Len(old) |-> WriteRow(old[i], fieldnames)]
            \o <<WriteRow(r, fieldnames)>>)

-----------------------------------------------------------------------------
(* The readers' state when no reader has run *)

NotRun == [ran |-> FALSE]

\* int(report.get("trend_window") or 10)
DefaultWindow == 10

\* A double that is the nearest one to a two-digit decimal literal h/100 is
\* h/100 + n/(100 * 2^60) for a small integer n (|n| < 2^15).  It is held as
\* the integer h * Ulps + n: the encoding is additive and keeps the order, and
\* the difference of two doubles in [0.5, 1) is exact, so subtraction and
\* comparison of the encodings are those of the doubles.
Ulps == 100000

Double(h, n) == h * Ulps + n

\* report.highlight_metric of the usual config
Metric == W("acc")

\* float(report.get("sharp_delta") or 0.15): the double nearest to 0.15
DefaultSharpDelta == Double(15, -640)

ReadersIdle ==
    /\ window = DefaultWindow
    /\ sharp_delta = DefaultSharpDelta
    /\ metric = Metric
    /\ svg = NotRun
    /\ summary = NotRun
    /\ valsvg = NotRun

RetryIdle ==
    /\ rpc = "idle"
    /\ attempt = 0
    /\ last_err = "none"
    /\ slept = 0
    /\ svgFile = <<>>
    /\ since = {}
    /\ sentFresh = TRUE

RunIdle ==
    /\ commit = <<>>
    /\ private = FALSE
    /\ step = "idle"
    /\ argv = {}
    /\ log = <<>>
    /\ trainedNow = FALSE
    /\ localCsv = <<>>

ClassIdle ==
    /\ changed_files = <<>>
    /\ script_paths = <<>>
    /\ data_paths = <<>>
    /\ REPO_HINTS = {}
    /\ causeOut = <<>>
    /\ cpc = "idle"
    /\ norm_arg = <<>>
    /\ normalized = <<>>

AvgIdle ==
    /\ ma_vals = <<>>
    /\ ma_k = 0
    /\ ma_out = [ran |-> FALSE]

LocalIdle ==
    /\ csv_file = [exists |-> FALSE, lines |-> <<>>]
    /\ calls = <<>>

TrainIdle ==
    /\ tt_in = [cause |-> ""]
    /\ tt_out = [ran |-> FALSE]

AgreeIdle ==
    /\ step2_cause = <<>>

PruneIdle ==
    /\ pr_in = [repo_visibility |-> "public"]
    /\ pr_out = [ran |-> FALSE]

UnitIdle ==
    /\ AvgIdle
    /\ LocalIdle
    /\ TrainIdle
    /\ AgreeIdle
    /\ PruneIdle

-----------------------------------------------------------------------------
(* The ledger writers: phase2_step1.py main and phase2_step2.py main *)

Runs == 1..NumRuns

\* GITHUB_SHA of each CI run: one commit per run
Sha(p) == W("c" \o ToString(p))

\* now.strftime(...): the timestamp string of clock tick t
Stamp(t) == W("t" \o ToString(t))

Step1Fields ==
    <<"timestamp_toronto", "branch", "author", "commit_sha", "commit_message",
      "workflow_status", "is_trained", "cause">>

Step2Fields ==
    <<"timestamp_toronto", "branch", "author", "commit_sha", "commit_message",
      "workflow_status", "mlflow_project_detected", "is_trained", "cause",
      "changed_files_count", "script_path", "data_paths", "script_hit", "data_hit">>

FieldsOf(s) == IF s = "step1" THEN Step1Fields ELSE Step2Fields

\* phase2_step1.py main: the DevOps-only row
Step1Row(p, now) ==
    [k \in Range(Step1Fields) |->
        CASE k = "timestamp_toronto" -> Stamp(now)
          [] k = "branch" -> W("main")
          [] k = "author" -> W("dev")
          [] k = "commit_sha" -> Sha(p)
          [] k = "commit_message" -> Empty
          [] k = "workflow_status" -> W("success")
          [] k = "is_trained" -> W("No")
          [] OTHER -> Empty]

\* what phase2_step2.py main derives from the checkout: project detection and
\* the verdict with its debug fields
Step2Inputs ==
    { [detected |-> W("No"), cause |-> Empty, count |-> W("1"), script_path |-> Empty,
       data_paths |-> Empty, script_hit |-> Empty, data_hit |-> Empty],
      [detected |-> W("Yes"), cause |-> W("Script"), count |-> W("1"),
       script_path |-> W("train.py"), data_paths |-> W("data"),
       script_hit |-> W("True"), data_hit |-> W("False")] }

\* phase2_step2.py main: row = {..., "cause": cause, **dbg}
Step2Row(p, now, inp) ==
    [k \in Range(Step2Fields) |->
        CASE k = "timestamp_toronto" -> Stamp(now)
          [] k = "branch" -> W("main")
          [] k = "author" -> W("dev")
          [] k = "commit_sha" -> Sha(p)
          [] k = "commit_message" -> Empty
          [] k = "workflow_status" -> W("success")
          [] k = "mlflow_project_detected" -> inp.detected
          [] k = "is_trained" -> W("No")
          [] k = "cause" -> inp.cause
          [] k = "changed_files_count" -> inp.count
          [] k = "script_path" -> inp.script_path
          [] k = "data_paths" -> inp.data_paths
          [] k = "script_hit" -> inp.script_hit
          [] OTHER -> inp.data_hit]

NoRow == [k \in {} |-> Empty]

\* the ledger before the runs start: no file yet, a blank file, or the table
\* an earlier phase2_step1 run (commit c0) left behind
EarlierLedger == Text(<<Step1Fields, WriteRow(Step1Row(0, 0), Step1Fields)>>)

\* the ledger after one earlier run of phase2_step2.py on an MLflow project
EarlierStep2Ledger ==
    Text(<<Step2Fields,
           WriteRow(Step2Row(0, 0, CHOOSE inp \in Step2Inputs : inp.detected = W("Yes")),
                    Step2Fields)>>)

LedgerInit ==
    /\ gist \in {Absent, Text(<<>>), EarlierLedger, EarlierStep2Ledger}
    /\ pc = [p \in Runs |-> "start"]
    /\ script = [p \in Runs |-> "none"]
    /\ row = [p \in Runs |-> NoRow]
    /\ existing = [p \in Runs |-> Absent]
    /\ updated = [p \in Runs |-> Absent]
    /\ clock = 1
    /\ ReadersIdle
    /\ RetryIdle
    /\ RunIdle
    /\ ClassIdle
    /\ UnitIdle

\* main up to the row dict (phase2_step1.py 127-161, phase2_step2.py 342-420)
BuildRow(p) ==
    /\ pc[p] = "start"
    /\ \/ /\ script' = [script EXCEPT ![p] = "step1"]
          /\ row' = [row EXCEPT ![p] = Step1Row(p, clock)]
       \/ \E inp \in Step2Inputs :
          /\ script' = [script EXCEPT ![p] = "step2"]
          /\ row' = [row EXCEPT ![p] = Step2Row(p, clock, inp)]
    /\ clock' = clock + 1
    /\ pc' = [pc EXCEPT ![p] = "built"]
    /\ UNCHANGED <<gist, existing, updated, offLedger>>

\* existing = get_gist_file_content(gist_id, token, CSV_NAME)
GetGist(p) ==
    /\ pc[p] = "built"
    /\ existing' = [existing EXCEPT ![p] = gist]
    /\ pc' = [pc EXCEPT ![p] = "fetched"]
    /\ UNCHANGED <<gist, script, row, updated, clock, offLedger>>

\* updated = append_csv_row(existing, row, fieldnames)
AppendCsv(p) ==
    /\ pc[p] = "fetched"
    /\ updated' = [updated EXCEPT ![p] =
          IF script[p] = "step1"
          THEN append_csv_row_step1(existing[p], row[p], Step1Fields)
          ELSE append_csv_row(existing[p], row[p], Step2Fields)]
    /\ pc' = [pc EXCEPT ![p] = "appended"]
    /\ UNCHANGED <<gist, script, row, existing, clock, offLedger>>

\* update_gist_file(gist_id, token, CSV_NAME, updated): the PATCH carries the
\* whole content and no precondition; the store replaces the file
UpdateGistOk(p) ==
    /\ pc[p] = "appended"
    /\ gist' = updated[p]
    /\ pc' = [pc EXCEPT ![p] = "done"]
    /\ UNCHANGED <<script, row, existing, updated, clock, offLedger>>

\* the PATCH answers with an HTTP error: gh_api_request raises RuntimeError,
\* main has no handler and the run ends
UpdateGistError(p) ==
    /\ pc[p] = "appended"
    /\ pc' = [pc EXCEPT ![p] = "failed"]
    /\ UNCHANGED <<gist, script, row, existing, updated, clock, offLedger>>

LedgerNext ==
    \E p \in Runs :
        \/ BuildRow(p)
        \/ GetGist(p)
        \/ AppendCsv(p)
        \/ UpdateGistOk(p)
        \/ UpdateGistError(p)

SpecLedger == LedgerInit /\ [][LedgerNext]_vars

-----------------------------------------------------------------------------
(* String helpers of the readers (render_svg.py, generate_summary_md.py) *)

RECURSIVE LStrip(_)
LStrip(c) == IF c # <<>> /\ Head(c) = " " THEN LStrip(Tail(c)) ELSE c

RECURSIVE RStrip(_)
RStrip(c) == IF c # <<>> /\ c[Len(c)] = " " THEN RStrip(SubSeq(c, 1, Len(c) - 1)) ELSE c

\* str.strip()
Strip(c) == RStrip(LStrip(c))

\* str.lower() on the words the ledger holds
Lower(t) ==
    CASE t = "Yes" -> "yes"
      [] t = "True" -> "true"
      [] t = "No" -> "no"
      [] t = "False" -> "false"
      [] OTHER -> t

\* "(v or "")": None and "" both give ""
OrEmpty(v) == IF v = NoneVal THEN Empty ELSE v

\* is_true(v): (v or "").strip().lower() in ("yes", "true", "1")
is_true(v) ==
    LET w == Strip(OrEmpty(v))
    IN Len(w) = 1 /\ Lower(w[1]) \in {"yes", "true", "1"}

\* str.split(sep)
RECURSIVE SplitOn(_, _)
SplitOn(c, sep) ==
    IF \A i \in DOMAIN c : c[i] # sep THEN <<c>>
    ELSE LET i == CHOOSE n \in DOMAIN c : c[n] = sep /\ \A m \in 1..(n - 1) : c[m] # sep
         IN <<SubSeq(c, 1, i - 1)>> \o SplitOn(SubSeq(c, i + 1, Len(c)), sep)

\* parse_kv(s): the "k=v" parts of "k=v; k=v" in order, as [k, v] pairs; a
\* later pair of the same key overrides an earlier one on lookup
parse_kv(s) ==
    LET st == Strip(OrEmpty(s))
        parts == IF st = Empty THEN <<>>
                 ELSE SelectSeq([i \in DOMAIN SplitOn(st, ";") |-> Strip(SplitOn(st, ";")[i])],
                                LAMBDA x : x # Empty)
        withEq == SelectSeq(parts, LAMBDA x : "=" \in Range(x))
    IN [i \in DOMAIN withEq |->
          LET x == withEq[i]
              e == CHOOSE n \in DOMAIN x : x[n] = "=" /\ \A m \in 1..(n - 1) : x[m] # "="
          IN [k |-> Strip(SubSeq(x, 1, e - 1)), v |-> Strip(SubSeq(x, e + 1, Len(x)))]]

\* m.get(key) on the dict parse_kv returns: None when the key is missing
KvGet(kv, key) ==
    IF \E i \in DOMAIN kv : kv[i].k = key
    THEN kv[CHOOSE i \in DOMAIN kv : kv[i].k = key /\ \A j \in DOMAIN kv : kv[j].k = key => j <= i].v
    ELSE NoneVal

\* the decimal literals of the model and the doubles float() gives for them
NumWords == {"0.80", "0.82", "0.94", "0.95"}

NumValue(t) ==
    CASE t = "0.80" -> Double(80, 5120)
      [] t = "0.82" -> Double(82, -5632)
      [] t = "0.94" -> Double(94, -6144)
      [] OTHER -> Double(95, -5120)

NoFloat == [ok |-> FALSE, val |-> 0]

\* mutant of safe_float: a value that is not a number counts as 0.0
safe_float_zero(x) ==
    IF Len(Strip(x)) = 1 /\ Strip(x)[1] \in NumWords
    THEN [ok |-> TRUE, val |-> NumValue(Strip(x)[1])]
    ELSE [ok |-> TRUE, val |-> 0]

\* safe_float(x): None for None, "" and "NA" and for whatever float() rejects
safe_float(x) ==
    IF x \in {NoneVal, Empty, W("NA")} THEN NoFloat
    ELSE LET w == Strip(x)
         IN IF Len(w) = 1 /\ w[1] \in NumWords THEN [ok |-> TRUE, val |-> NumValue(w[1])]
            ELSE NoFloat

\* order of the timestamp strings ("" sorts first)
StampRank(c) ==
    CASE c = Empty -> 0
      [] c = W("t0") -> 1
      [] c = W("t1") -> 2
      [] c = W("t2") -> 3
      [] c = W("t3") -> 4
      [] c = W("t4") -> 5
      [] OTHER -> 6

\* rows.sort(key=lambda r: r.get(key, "")): stable
RECURSIVE SortRows(_, _)
SortRows(rows, key) ==
    IF rows = <<>> THEN <<>>
    ELSE LET n == Len(rows)
             front == SortRows(SubSeq(rows, 1, n - 1), key)
             r == rows[n]
             at == Cardinality({i \in DOMAIN front :
                       StampRank(Get(front[i], key)) <= StampRank(Get(r, key))})
         IN SubSeq(front, 1, at) \o <<r>> \o SubSeq(front, at + 1, Len(front))

\* seq[-w:]
LastRows(seq, w) ==
    LET n == Len(seq)
        from == IF w > 0 THEN (IF n - w > 0 THEN n - w ELSE 0)
                ELSE (IF 0 - w < n THEN 0 - w ELSE n)
    IN SubSeq(seq, from + 1, n)

Abs(x) == IF x < 0 THEN 0 - x ELSE x

-----------------------------------------------------------------------------
(* The readers: render_svg.py main and generate_summary_md.py main *)

\* the field list of the row run_report.py hands to the append step
ReportFields ==
    <<"timestamp_local", "branch", "author", "commit_sha", "commit_message",
      "workflow_status", "mlflow_project_detected", "is_trained", "mlflow_run_id",
      "duration", "mlflow_params_kv", "mlflow_metrics_kv", "cause">>

\* run_report.py main: the row dict of one CI run
ReportRow(sha, ts, trained, run_id, metrics_kv, cause) ==
    [k \in Range(ReportFields) |->
        CASE k = "timestamp_local" -> ts
          [] k = "branch" -> W("main")
          [] k = "author" -> W("dev")
          [] k = "commit_sha" -> sha
          [] k = "commit_message" -> W("msg")
          [] k = "workflow_status" -> W("success")
          [] k = "mlflow_project_detected" -> W("Yes")
          [] k = "is_trained" -> trained
          [] k = "mlflow_run_id" -> run_id
          [] k = "duration" -> IF run_id # Empty THEN W("12s") ELSE Empty
          [] k = "mlflow_params_kv" -> Empty
          [] k = "mlflow_metrics_kv" -> metrics_kv
          [] OTHER -> cause]

\* the rows a reader works on: {k: (v or "").strip()} per DictReader row;
\* "#pos" is the position of the row in the ledger (bookkeeping of the model)
ReaderRows(content) ==
    IF ~HasText(content) THEN <<>>
    ELSE LET d == DictReaderRows(content.recs)
         IN [i \in DOMAIN d |->
               [k \in DOMAIN d[i] \cup {"#pos"} |->
                   IF k = "#pos" THEN <<ToString(i)>> ELSE Strip(OrEmpty(d[i][k]))]]

\* the point loop shared by both readers (render_svg.py 207-219,
\* generate_summary_md.py 326-345): rows without a parseable metric are skipped
RECURSIVE TrendLoop(_, _, _, _, _, _, _)
TrendLoop(rows, i, prev, pts, sd, tskey, key) ==
    IF i > Len(rows) THEN pts
    ELSE LET r == rows[i]
             v == safe_float(KvGet(parse_kv(Get(r, "mlflow_metrics_kv")), key))
         IN IF ~v.ok THEN TrendLoop(rows, i + 1, prev, pts, sd, tskey, key)
            ELSE LET d == IF prev.ok THEN v.val - prev.val ELSE 0
                     sharp == IF prev.ok THEN Abs(d) >= sd ELSE FALSE
                 IN TrendLoop(rows, i + 1, v,
                              Append(pts, [pos |-> r["#pos"], ts |-> Get(r, tskey),
                                           sha |-> Get(r, "commit_sha"), val |-> v.val,
                                           delta |-> d, sharp |-> sharp]),
                              sd, tskey, key)

\* render_svg.py main 192-219
render_svg_points(content, w, sd, key) ==
    LET rows == SortRows(ReaderRows(content), "timestamp_toronto")
        trained == SelectSeq(rows, LAMBDA r : is_true(Get(r, "is_trained")))
    IN TrendLoop(LastRows(trained, w), 1, NoFloat, <<>>, sd, "timestamp_toronto", key)

Reverse(s) == [i \in DOMAIN s |-> s[Len(s) + 1 - i]]

\* mutant of dedupe_rows: the scan keeps the first row of each commit
RECURSIVE DedupeForward(_, _, _, _)
DedupeForward(rows, i, seen, out) ==
    IF i > Len(rows) THEN out
    ELSE LET sha_i == Strip(OrEmpty(Get(rows[i], "commit_sha")))
         IN IF sha_i # Empty /\ sha_i \in seen THEN DedupeForward(rows, i + 1, seen, out)
            ELSE DedupeForward(rows, i + 1,
                               IF sha_i # Empty THEN seen \cup {sha_i} ELSE seen,
                               Append(out, rows[i]))

dedupe_keep_first(rows) == DedupeForward(rows, 1, {}, <<>>)

\* generate_summary_md.py main 201-209: the scan over reversed(trained_rows_all)
RECURSIVE DedupeScan(_, _, _, _)
DedupeScan(rows, i, seen, out) ==
    IF i = 0 THEN out
    ELSE LET sha_i == Strip(OrEmpty(Get(rows[i], "commit_sha")))
         IN IF sha_i # Empty /\ sha_i \in seen THEN DedupeScan(rows, i - 1, seen, out)
            ELSE DedupeScan(rows, i - 1,
                            IF sha_i # Empty THEN seen \cup {sha_i} ELSE seen,
                            Append(out, rows[i]))

\* generate_summary_md.py main 200-210: DEDUPE by commit_sha, then reverse
dedupe_rows(rows) == Reverse(DedupeScan(rows, Len(rows), {}, <<>>))

\* generate_summary_md.py main 190-213 and 324-345
generate_summary(content, w, sd, key) ==
    LET rows == SortRows(ReaderRows(content), "timestamp_local")
        trained_rows_all == SelectSeq(rows, LAMBDA r : is_true(Get(r, "is_trained")))
        trained_rows == dedupe_rows(trained_rows_all)
        base == IF trained_rows # <<>> THEN LastRows(trained_rows, w) ELSE <<>>
    IN [ran |-> TRUE,
        all |-> trained_rows_all,
        trained |-> trained_rows,
        latest |-> IF trained_rows # <<>> THEN <<trained_rows[Len(trained_rows)]>> ELSE <<>>,
        pts |-> TrendLoop(base, 1, NoFloat, <<>>, sd, "timestamp_local", key)]

\* the rows CI runs have appended: commit, timestamp, training outcome, metrics;
\* a run started without GITHUB_SHA leaves commit_sha empty
RowChoices ==
    { ReportRow(sha, ts, tr, IF tr = W("true") THEN W("r1") ELSE Empty, mk, W("Script")) :
        sha \in {W("c1"), W("c2")}, ts \in {W("t1"), W("t2")},
        tr \in {W("true"), W("false")}, mk \in {<<"acc", "=", "0.80">>, Empty} }
    \cup
    { ReportRow(Empty, ts, W("true"), W("r1"), <<"acc", "=", "0.80">>, W("Script")) :
        ts \in {W("t1"), W("t2")} }

RECURSIVE Tables(_)
Tables(n) ==
    IF n = 0 THEN {<<>>}
    ELSE Tables(n - 1) \cup
         {Append(t, WriteRow(r, ReportFields)) : t \in {x \in Tables(n - 1) : Len(x) = n - 1},
                                                  r \in RowChoices}

LedgerIdle ==
    /\ pc = [p \in Runs |-> "idle"]
    /\ script = [p \in Runs |-> "none"]
    /\ row = [p \in Runs |-> NoRow]
    /\ existing = [p \in Runs |-> Absent]
    /\ updated = [p \in Runs |-> Absent]
    /\ clock = 1

\* a ledger of up to MaxRows appended rows (or no file), a configured window
ReadInit ==
    /\ gist \in {Absent} \cup {Text(<<ReportFields>> \o t) : t \in Tables(MaxRows)}
    /\ LedgerIdle
    /\ window \in {1, 2}
    /\ sharp_delta = DefaultSharpDelta
    /\ metric = Metric
    /\ svg = NotRun
    /\ summary = NotRun
    /\ valsvg = NotRun
    /\ RetryIdle
    /\ RunIdle
    /\ ClassIdle
    /\ UnitIdle

\* render_svg.py main up to the point lists
RenderSvgRead ==
    /\ ~svg.ran
    /\ svg' = [ran |-> TRUE, pts |-> render_svg_points(gist, window, sharp_delta, metric)]
    /\ UNCHANGED <<offRead, window, sharp_delta, metric, summary, valsvg>>

\* generate_summary_md.py main up to the Section 2 points; run_report.py runs
\* it after render_svg.py
SummaryRead ==
    /\ svg.ran
    /\ ~summary.ran
    /\ summary' = generate_summary(gist, window, sharp_delta, metric)
    /\ UNCHANGED <<offRead, window, sharp_delta, metric, svg, valsvg>>

ReadNext == RenderSvgRead \/ SummaryRead

SpecRead == ReadInit /\ [][ReadNext]_vars

-----------------------------------------------------------------------------
(* The trend arithmetic of the two readers on ledgers of trained rows *)

\* mlflow_metrics_kv cells: four values of the metric, and cells where the
\* value is missing, empty, "NA" or not a number
TrendMetricChoices ==
    { <<"acc", "=", "0.80">>, <<"acc", "=", "0.82">>, <<"acc", "=", "0.94">>,
      <<"acc", "=", "0.95">>, Empty, <<"acc", "=", "NA">>, <<"acc", "=", "abc">>,
      <<"loss", "=", "0.80">> }

\* report.sharp_delta: 0.10 in the config
SharpDeltaTenth == Double(10, 640)

\* the i-th row of a ledger of trained rows of distinct commits in timestamp order
TrendRow(i, metrics_kv) ==
    ReportRow(W("c" \o ToString(i)), W("t" \o ToString(i)), W("true"), W("r1"), metrics_kv, W("Script"))

\* the rows of a ledger of trained rows whose metrics cells are cells[1], cells[2], ...
TrendTable(cells) ==
    [i \in DOMAIN cells |-> WriteRow(TrendRow(i, cells[i]), ReportFields)]

TrendInit ==
    /\ \E n \in 0..MaxTrendRows : \E cells \in [1..n -> TrendMetricChoices] :
           gist = Text(<<ReportFields>> \o TrendTable(cells))
    /\ LedgerIdle
    /\ window = DefaultWindow
    /\ sharp_delta \in {DefaultSharpDelta, SharpDeltaTenth}
    /\ metric = Metric
    /\ svg = NotRun
    /\ summary = NotRun
    /\ valsvg = NotRun
    /\ RetryIdle
    /\ RunIdle
    /\ ClassIdle
    /\ UnitIdle

SpecTrend == TrendInit /\ [][ReadNext]_vars

-----------------------------------------------------------------------------
(* The three scripts that compute a trend, each run on its own with a      *)
(* config whose report.highlight_metric may be missing                     *)

\* raise SystemExit("Missing report.highlight_metric in config")
MissingMetric == [ran |-> FALSE, exit |-> "Missing report.highlight_metric in config"]

\* str(report.get("highlight_metric") or "").strip()
metric_of(cfg_metric) == Strip(OrEmpty(cfg_metric))

\* render_svg.py main 177-222: the config checks come before the gist is read
render_svg_main(content, w, sd, cfg_metric) ==
    IF metric_of(cfg_metric) = Empty THEN MissingMetric
    ELSE [ran |-> TRUE, pts |-> render_svg_points(content, w, sd, metric_of(cfg_metric))]

\* generate_summary_md.py main 174-345
generate_summary_main(content, w, sd, cfg_metric) ==
    IF metric_of(cfg_metric) = Empty THEN MissingMetric
    ELSE generate_summary(content, w, sd, metric_of(cfg_metric))

\* str(report_cfg.get("highlight_metric") or "val_accuracy").strip()
metric_key_of(cfg_metric) ==
    Strip(IF cfg_metric \in {NoneVal, Empty} THEN W("val_accuracy") ELSE cfg_metric)

\* render_val_accuracy_svg.py main 253-275: read, build_points_from_csv,
\* build_svg and one PATCH of trend_<metric_key>.svg
render_val_accuracy_main(content, w, sd, cfg_metric) ==
    [ran |-> TRUE,
     metric_key |-> metric_key_of(cfg_metric),
     pts |-> render_svg_points(content, w, sd, metric_key_of(cfg_metric)),
     uploaded |-> <<"trend_">> \o metric_key_of(cfg_metric) \o <<".svg">>]

\* report.highlight_metric: absent, empty, blank, or the name of a metric
ConfigMetricChoices == {NoneVal, Empty, <<" ">>, Metric}

ConfigInit ==
    /\ gist \in {Absent} \cup {Text(<<ReportFields>> \o t) : t \in Tables(1)}
    /\ LedgerIdle
    /\ window = DefaultWindow
    /\ sharp_delta = DefaultSharpDelta
    /\ metric \in ConfigMetricChoices
    /\ svg = NotRun
    /\ summary = NotRun
    /\ valsvg = NotRun
    /\ RetryIdle
    /\ RunIdle
    /\ ClassIdle
    /\ UnitIdle

RunRenderSvg ==
    /\ svg = NotRun
    /\ svg' = render_svg_main(gist, window, sharp_delta, metric)
    /\ UNCHANGED <<offRead, window, sharp_delta, metric, summary, valsvg>>

RunGenerateSummary ==
    /\ summary = NotRun
    /\ summary' = generate_summary_main(gist, window, sharp_delta, metric)
    /\ UNCHANGED <<offRead, window, sharp_delta, metric, svg, valsvg>>

RunRenderValAccuracy ==
    /\ valsvg = NotRun
    /\ valsvg' = render_val_accuracy_main(gist, window, sharp_delta, metric)
    /\ UNCHANGED <<offRead, window, sharp_delta, metric, svg, summary>>

ConfigNext ==
    \/ RunRenderSvg
    \/ RunGenerateSummary
    \/ RunRenderValAccuracy

SpecConfig == ConfigInit /\ [][ConfigNext]_vars

-----------------------------------------------------------------------------
(* render_svg.py main: one read of the ledger, then the upload loop *)

\* for attempt in range(6)
MaxAttempts == 6

RECURSIVE Pow2(_)
Pow2(n) == IF n = 0 THEN 1 ELSE 2 * Pow2(n - 1)

\* build_svg: what is drawn, one circle per point (timestamp label, value,
\* red dot when sharp); no points give the empty <svg/>
build_svg(pts) == [i \in DOMAIN pts |-> [ts |-> pts[i].ts, val |-> pts[i].val, sharp |-> pts[i].sharp]]

\* rows of other CI runs that finish while this one renders
OtherRows ==
    { ReportRow(W("c1"), W("t1"), W("true"), W("r1"), <<"acc", "=", "0.80">>, W("Script")),
      ReportRow(W("c2"), W("t2"), W("true"), W("r2"), <<"acc", "=", "0.95">>, W("Data")) }

RetryInit ==
    /\ gist \in {Absent} \cup {Text(<<ReportFields, WriteRow(r, ReportFields)>>) : r \in OtherRows}
    /\ LedgerIdle
    /\ ReadersIdle
    /\ rpc = "start"
    /\ attempt = 0
    /\ last_err = "none"
    /\ slept = 0
    /\ svgFile = <<>>
    /\ since = {}
    /\ sentFresh = TRUE
    /\ RunIdle
    /\ ClassIdle
    /\ UnitIdle

\* another CI run completes its append to the ledger (its read, append_csv_row
\* and PATCH, uninterrupted)
OtherRunAppends ==
    /\ rpc \in {"start", "loop"}
    /\ ~HasText(gist) \/ Len(gist.recs) <= MaxOtherRows
    /\ \E r \in OtherRows : gist' = append_csv_row(gist, r, ReportFields)
    /\ since' = since \cup {gist'}
    /\ UNCHANGED <<pc, script, row, existing, updated, clock, readerVars,
                   rpc, attempt, last_err, slept, svgFile, sentFresh, offRetry>>

\* csv_text = get_gist_file_content(...) and the point lists built from it
\* (render_svg.py 190-222)
RenderRead ==
    /\ rpc = "start"
    /\ svg' = [ran |-> TRUE, pts |-> render_svg_points(gist, window, sharp_delta, metric)]
    /\ since' = {gist}
    /\ rpc' = "loop"
    /\ UNCHANGED <<ledgerVars, window, sharp_delta, metric, summary, valsvg, attempt, last_err, slept, svgFile, sentFresh, offRetry>>

\* is what this attempt sends built from a ledger the gist has held since the
\* previous attempt?
SendsFresh ==
    attempt > 0 =>
        build_svg(svg.pts) \in {build_svg(render_svg_points(c, window, sharp_delta, metric)) : c \in since}

\* update_gist_file succeeds: last_err = None; break
PatchOk ==
    /\ rpc = "loop"
    /\ svgFile' = build_svg(svg.pts)
    /\ last_err' = "none"
    /\ sentFresh' = (sentFresh /\ SendsFresh)
    /\ since' = {gist}
    /\ rpc' = "after"
    /\ UNCHANGED <<ledgerVars, readerVars, attempt, slept, offRetry>>

\* the PATCH answers 409 Conflict: last_err = e; time.sleep(2 ** attempt);
\* continue (the loop ends after the sixth attempt)
PatchConflict ==
    /\ rpc = "loop"
    /\ last_err' = "409"
    /\ slept' = slept + Pow2(attempt)
    /\ attempt' = attempt + 1
    /\ sentFresh' = (sentFresh /\ SendsFresh)
    /\ since' = {gist}
    /\ rpc' = IF attempt + 1 = MaxAttempts THEN "after" ELSE "loop"
    /\ UNCHANGED <<ledgerVars, readerVars, svgFile, offRetry>>

\* mutant of PatchError: every error is handled like a conflict
PatchErrorRetried ==
    /\ rpc = "loop"
    /\ last_err' = "500"
    /\ slept' = slept + Pow2(attempt)
    /\ attempt' = attempt + 1
    /\ sentFresh' = (sentFresh /\ SendsFresh)
    /\ since' = {gist}
    /\ rpc' = IF attempt + 1 = MaxAttempts THEN "after" ELSE "loop"
    /\ UNCHANGED <<ledgerVars, readerVars, svgFile, offRetry>>

\* the PATCH answers with another HTTP error: last_err = e; raise
PatchError ==
    /\ rpc = "loop"
    /\ last_err' = "500"
    /\ sentFresh' = (sentFresh /\ SendsFresh)
    /\ since' = {gist}
    /\ rpc' = "raised"
    /\ UNCHANGED <<ledgerVars, readerVars, attempt, slept, svgFile, offRetry>>

\* after the loop: if last_err is not None: raise last_err; else write the
\* result json and return 0
AfterLoop ==
    /\ rpc = "after"
    /\ rpc' = IF last_err # "none" THEN "raised" ELSE "done"
    /\ UNCHANGED <<ledgerVars, readerVars, attempt, last_err, slept, svgFile, since, sentFresh, offRetry>>

RetryNext ==
    \/ OtherRunAppends
    \/ RenderRead
    \/ PatchOk
    \/ PatchConflict
    \/ PatchError
    \/ AfterLoop

SpecRetry == RetryInit /\ [][RetryNext]_vars

-----------------------------------------------------------------------------
(* detect_cause_mlops.py: normalize_repo_rel_path and classify_cause.  A   *)
(* path is a sequence of one-character strings.                            *)

\* the "/"-separated segments of a path
Segments(path) == SplitOn(path, "/")

\* str.startswith
StartsWith(s, prefix) ==
    Len(prefix) <= Len(s) /\ SubSeq(s, 1, Len(prefix)) = prefix

\* str.lstrip(chars), str.rstrip(chars), str.strip(chars): chars is a set
RECURSIVE LStripChars(_, _)
LStripChars(s, chars) ==
    IF s # <<>> /\ Head(s) \in chars THEN LStripChars(Tail(s), chars) ELSE s

RECURSIVE RStripChars(_, _)
RStripChars(s, chars) ==
    IF s # <<>> /\ s[Len(s)] \in chars THEN RStripChars(SubSeq(s, 1, Len(s) - 1), chars) ELSE s

StripChars(s, chars) == RStripChars(LStripChars(s, chars), chars)

\* str.replace("\\", "/")
ReplaceBackslash(s) == [i \in DOMAIN s |-> IF s[i] = "\\" THEN "/" ELSE s[i]]

\* [x for x in p.split("/") if x]
NonEmptyParts(s) ==
    LET parts == SplitOn(s, "/")
        F[i \in 0..Len(parts)] ==
            IF i = 0 THEN <<>>
            ELSE IF parts[i] = <<>> THEN F[i - 1] ELSE Append(F[i - 1], parts[i])
    IN F[Len(parts)]

\* "/".join(parts)
RECURSIVE JoinSlash(_)
JoinSlash(parts) ==
    IF parts = <<>> THEN <<>>
    ELSE IF Len(parts) = 1 THEN parts[1]
    ELSE parts[1] \o <<"/">> \o JoinSlash(Tail(parts))

\* the loop over repo_hints; main puts at most one name in REPO_HINTS
StripHint(s, repo_hints) ==
    IF repo_hints = {} THEN s
    ELSE LET rh == StripChars(StripChars(CHOOSE h \in repo_hints : TRUE, {" "}), {"/"})
         IN IF rh # <<>> /\ StartsWith(s, rh \o <<"/">>)
            THEN SubSeq(s, Len(rh) + 2, Len(s))
            ELSE s

normalize_repo_rel_path(path, repo_hints) ==
    LET p1 == StripChars(ReplaceBackslash(path), {" "})
        p2 == LStripChars(p1, {".", "/"})
        parts == NonEmptyParts(p2)
        p3 == IF StartsWith(p2, <<".", ".", "/">>) /\ Len(parts) >= 3 /\ parts[1] = <<".", ".">>
              THEN JoinSlash(SubSeq(parts, 3, Len(parts)))
              ELSE p2
    IN StripHint(p3, repo_hints)

\* mutant of script_match: a rule hits every path it is a prefix of
script_match_prefix(f, target) == StartsWith(f, target)

\* f == p
script_match(f, target) == f = target

\* mutant of data_match: a rule hits every path it is a string prefix of
data_match_prefix(f, dp) == dp # <<>> /\ StartsWith(f, dp)

\* f == dp or f.startswith(dp + "/"), for dp in norm_data_paths if dp
data_match(f, dp) == dp # <<>> /\ (f = dp \/ StartsWith(f, dp \o <<"/">>))

\* mutant of resolve_cause: the script branch is tested first
resolve_cause_script_first(script_hit, data_hit) ==
    IF script_hit THEN W("Script")
    ELSE IF data_hit THEN W("Data")
    ELSE Empty

\* the if / elif chain on the two flags
resolve_cause(script_hit, data_hit) ==
    IF script_hit /\ data_hit THEN W("Both")
    ELSE IF script_hit THEN W("Script")
    ELSE IF data_hit THEN W("Data")
    ELSE Empty

\* the list comprehensions: truthy entries, normalized, trailing "/" removed
RuleTargets(paths, repo_hints) ==
    LET F[i \in 0..Len(paths)] ==
            IF i = 0 THEN <<>>
            ELSE IF paths[i] = <<>> THEN F[i - 1]
            ELSE Append(F[i - 1], RStripChars(normalize_repo_rel_path(paths[i], repo_hints), {"/"}))
    IN F[Len(paths)]

\* for f in changed: the two flags
RECURSIVE ClassifyLoop(_, _, _, _, _, _)
ClassifyLoop(changed, i, script_targets, norm_data_paths, script_hit, data_hit) ==
    IF i > Len(changed) THEN [script_hit |-> script_hit, data_hit |-> data_hit]
    ELSE ClassifyLoop(changed, i + 1, script_targets, norm_data_paths,
            script_hit \/ \E j \in DOMAIN script_targets : script_match(changed[i], script_targets[j]),
            data_hit \/ \E j \in DOMAIN norm_data_paths : data_match(changed[i], norm_data_paths[j]))

\* mutant of the loop: each file overwrites the flags of the files before it
RECURSIVE ClassifyLoopLastWins(_, _, _, _, _, _)
ClassifyLoopLastWins(changed, i, script_targets, norm_data_paths, script_hit, data_hit) ==
    IF i > Len(changed) THEN [script_hit |-> script_hit, data_hit |-> data_hit]
    ELSE ClassifyLoopLastWins(changed, i + 1, script_targets, norm_data_paths,
            \E j \in DOMAIN script_targets : script_match(changed[i], script_targets[j]),
            \E j \in DOMAIN norm_data_paths : data_match(changed[i], norm_data_paths[j]))

classify_hits_last_wins(files, scripts, datas, repo_hints) ==
    ClassifyLoopLastWins([i \in DOMAIN files |-> normalize_repo_rel_path(files[i], repo_hints)], 1,
                         RuleTargets(scripts, repo_hints), RuleTargets(datas, repo_hints), FALSE, FALSE)

\* script_hit and data_hit after the loop (dbg["script_hit"], dbg["data_hit"])
classify_hits(files, scripts, datas, repo_hints) ==
    ClassifyLoop([i \in DOMAIN files |-> normalize_repo_rel_path(files[i], repo_hints)], 1,
                 RuleTargets(scripts, repo_hints), RuleTargets(datas, repo_hints), FALSE, FALSE)

classify_cause(files, scripts, datas, repo_hints) ==
    LET hits == classify_hits(files, scripts, datas, repo_hints)
    IN resolve_cause(hits.script_hit, hits.data_hit)

SeqsUpTo(S, n) == UNION {[1..k -> S] : k \in 0..n}

\* changed paths as git and the tools report them
ChangedChoices ==
    { <<"a">>, <<"a", "/", "b">>, <<"a", "b">>, <<".", "/", "a">>,
      <<"a", "\\", "b">>, <<"r", "/", "a">> }

\* train_script / data_paths entries of the config
RuleChoices ==
    { <<"a">>, <<"a", "/">>, <<"a", "/", "b">>, <<>>, <<"r", "/", "a">> }

ClassifyInit ==
    /\ gist = Absent
    /\ LedgerIdle
    /\ ReadersIdle
    /\ RetryIdle
    /\ RunIdle
    /\ UnitIdle
    /\ changed_files \in SeqsUpTo(ChangedChoices, MaxChanged)
    /\ script_paths \in SeqsUpTo(RuleChoices, MaxRules)
    /\ data_paths \in SeqsUpTo(RuleChoices, MaxRules)
    /\ REPO_HINTS \in {{}, {<<"r">>}}
    /\ causeOut = <<>>
    /\ cpc = "ready"
    /\ norm_arg = <<>>
    /\ normalized = <<>>

\* cause, dbg = classify_cause(filtered_changed_files, script_paths, data_paths)
Classify ==
    /\ cpc = "ready"
    /\ causeOut' = classify_cause(changed_files, script_paths, data_paths, REPO_HINTS)
    /\ cpc' = "classified"
    /\ UNCHANGED <<changed_files, script_paths, data_paths, REPO_HINTS, norm_arg, normalized, offClass>>

ClassifyNext == Classify

SpecClassify == ClassifyInit /\ [][ClassifyNext]_vars

-----------------------------------------------------------------------------
(* detect_cause_mlops.py main: the ignore filter in front of classify_cause *)

\* sub in s
Contains(s, sub) ==
    \E i \in 1..(Len(s) - Len(sub) + 1) : SubSeq(s, i, i + Len(sub) - 1) = sub

DSStore == <<".", "D", "S", "_", "S", "t", "o", "r", "e">>
ThumbsDb == <<"T", "h", "u", "m", "b", "s", ".", "d", "b">>
DesktopIni == <<"d", "e", "s", "k", "t", "o", "p", ".", "i", "n", "i">>
MacOsx == <<"_", "_", "M", "A", "C", "O", "S", "X">>

\* p.rsplit("/", 1)[-1]
Basename(path) == Segments(path)[Len(Segments(path))]

_is_ignored_path(path) ==
    \/ Basename(path) \in {DSStore, ThumbsDb, DesktopIni}
    \/ Contains(path, <<"/">> \o MacOsx \o <<"/">>)

\* [f for f in changed_files if not _is_ignored_path(f)]
filtered_changed_files(files) ==
    LET Keep(f) == ~_is_ignored_path(f) IN SelectSeq(files, Keep)

\* changed paths of a commit: noise files, files in __MACOSX directories,
\* and an ordinary data file
DetectChangedChoices ==
    { <<"d", "/">> \o DSStore, DesktopIni, <<"d", "/">> \o MacOsx \o <<"/", "a">>,
      MacOsx \o <<"/", "a">>, <<"d", "/", "a">> }

DetectRuleChoices == { <<"d">>, MacOsx, <<"d", "/">> \o DSStore }

DetectInit ==
    /\ gist = Absent
    /\ LedgerIdle
    /\ ReadersIdle
    /\ RetryIdle
    /\ RunIdle
    /\ UnitIdle
    /\ changed_files \in SeqsUpTo(DetectChangedChoices, MaxChanged)
    /\ script_paths \in SeqsUpTo(DetectRuleChoices, MaxRules)
    /\ data_paths \in SeqsUpTo(DetectRuleChoices, MaxRules)
    /\ REPO_HINTS \in {{}, {<<"r">>}}
    /\ causeOut = <<>>
    /\ cpc = "ready"
    /\ norm_arg = <<>>
    /\ normalized = <<>>

\* the config_valid branch of main: filter, then classify
FilterAndClassify ==
    /\ cpc = "ready"
    /\ causeOut' = classify_cause(filtered_changed_files(changed_files), script_paths,
                                  data_paths, REPO_HINTS)
    /\ cpc' = "classified"
    /\ UNCHANGED <<changed_files, script_paths, data_paths, REPO_HINTS, norm_arg, normalized, offClass>>

DetectNext == FilterAndClassify

SpecDetect == DetectInit /\ [][DetectNext]_vars

-----------------------------------------------------------------------------
(* normalize_repo_rel_path on its own, over every short path *)

MaxPathLen == 6

MaxCalls == 2

\* the characters the function tells apart, and two ordinary ones
PathChars == {".", "/", "\\", " ", "r", "a"}

NormalizeInit ==
    /\ gist = Absent
    /\ LedgerIdle
    /\ ReadersIdle
    /\ RetryIdle
    /\ RunIdle
    /\ UnitIdle
    /\ changed_files = <<>>
    /\ script_paths = <<>>
    /\ data_paths = <<>>
    /\ REPO_HINTS \in {{}, {<<"r">>}}
    /\ causeOut = <<>>
    /\ cpc = "idle"
    /\ norm_arg \in SeqsUpTo(PathChars, MaxPathLen)
    /\ normalized = <<>>

\* normalize_repo_rel_path(p, REPO_HINTS), p being the argument or the last result
Normalize ==
    /\ Len(normalized) < MaxCalls
    /\ normalized' = Append(normalized,
                            normalize_repo_rel_path(IF normalized = <<>> THEN norm_arg
                                                    ELSE normalized[Len(normalized)],
                                                    REPO_HINTS))
    /\ UNCHANGED <<changed_files, script_paths, data_paths, REPO_HINTS, causeOut, cpc,
                   norm_arg, offClass>>

NormalizeNext == Normalize

SpecNormalize == NormalizeInit /\ [][NormalizeNext]_vars

-----------------------------------------------------------------------------
(* render_svg.moving_average (render_val_accuracy_svg.py holds the same     *)
(* function) on its own.  The values are small integers, which doubles hold *)
(* exactly and add exactly; the quotient sum(w) / len(w) is the double       *)
(* nearest to the fraction, held here as the fraction in lowest terms.       *)

MaxVals == 4

MaxK == 3

RECURSIVE Gcd(_, _)
Gcd(a, b) == IF b = 0 THEN a ELSE Gcd(b, a % b)

\* the float n / d
Quotient(n, d) == [num |-> n \div Gcd(n, d), den |-> d \div Gcd(n, d)]

\* None in a list of floats: no fraction has the denominator 0
NoAverage == [num |-> 0, den |-> 0]

\* sum(w)
RECURSIVE SumSeq(_)
SumSeq(w) == IF w = <<>> THEN 0 ELSE Head(w) + SumSeq(Tail(w))

\* s[a:b] for 0 <= a: the elements at the 0-based positions a .. b-1 that exist
Slice(s, a, b) == SubSeq(s, a + 1, IF b <= Len(s) THEN b ELSE Len(s))

\* mutant of moving_average: a window of k values, the missing ones taken as 0
RECURSIVE moving_average_padded_loop(_, _, _, _)
moving_average_padded_loop(vals, kk, i, out) ==
    IF i >= Len(vals) THEN out
    ELSE LET w == Slice(vals, IF i - (kk - 1) > 0 THEN i - (kk - 1) ELSE 0, i + 1)
         IN moving_average_padded_loop(vals, kk, i + 1, Append(out, Quotient(SumSeq(w), kk)))

moving_average_padded(vals, kk) == moving_average_padded_loop(vals, kk, 0, <<>>)

\* for i in range(len(vals)): w = vals[max(0, i - (k - 1)) : i + 1]; out.append(...)
RECURSIVE moving_average_loop(_, _, _, _)
moving_average_loop(vals, kk, i, out) ==
    IF i >= Len(vals) THEN out
    ELSE LET w == Slice(vals, IF i - (kk - 1) > 0 THEN i - (kk - 1) ELSE 0, i + 1)
         IN moving_average_loop(vals, kk, i + 1,
                Append(out, IF w # <<>> THEN Quotient(SumSeq(w), Len(w)) ELSE NoAverage))

moving_average(vals, kk) == moving_average_loop(vals, kk, 0, <<>>)

\* the metric values of the points, and the window sizes
AverageInit ==
    /\ gist = Absent
    /\ LedgerIdle
    /\ ReadersIdle
    /\ RetryIdle
    /\ RunIdle
    /\ ClassIdle
    /\ ma_vals \in SeqsUpTo(1..4, MaxVals)
    /\ ma_k \in 1..MaxK
    /\ ma_out = [ran |-> FALSE]
    /\ LocalIdle
    /\ TrainIdle
    /\ AgreeIdle
    /\ PruneIdle

\* ma = moving_average(vals, k)
MovingAverage ==
    /\ ~ma_out.ran
    /\ ma_out' = [ran |-> TRUE, out |-> moving_average(ma_vals, ma_k)]
    /\ UNCHANGED <<offUnit, offAvg, ma_vals, ma_k>>

AverageNext == MovingAverage

SpecAverage == AverageInit /\ [][AverageNext]_vars

-----------------------------------------------------------------------------
(* append_commitHistory.py, run several times in one working directory.    *)
(* A line of commitHistory.csv is the sequence of its fields; of the 22     *)
(* columns the model keeps those the runs below tell apart.                 *)

MaxLocalRuns == 3

\* header (50-55)
LocalHeader ==
    <<"commit_timestamp", "commit_id", "commit_message", "author", "status",
      "trained_model", "cause_mlops", "run_id">>

\* if f",{commit_id}," in line: a field of the line that is neither its first
\* nor its last one is the commit id
LineHoldsCommit(line, commit_id) ==
    \E i \in 2..(Len(line) - 1) : line[i] = commit_id

\* 67-81: the row, run_id being "no new run" unless trained_model is true
LocalRow(commit_id, author, status, trained_model, run_id) ==
    <<"t", commit_id, "msg", author, status, trained_model, "None",
      IF trained_model \notin {"true", "1", "yes", "y", "on"} THEN "no new run" ELSE run_id>>

\* if not CSV.exists(): CSV.write_text(header)
EnsureHeader(file) ==
    IF file.exists THEN file ELSE [exists |-> TRUE, lines |-> <<LocalHeader>>]

\* mutant of append_commitHistory: no duplicate-commit guard
append_commitHistory_unguarded(file, new_row) ==
    [file |-> [exists |-> TRUE, lines |-> Append(EnsureHeader(file).lines, new_row)], exit |-> 0]

\* 56-86: ensure the header, the duplicate-commit guard, the append
append_commitHistory(file, new_row) ==
    LET csv == EnsureHeader(file)
    IN IF \E i \in DOMAIN csv.lines : LineHoldsCommit(csv.lines[i], new_row[2])
       THEN [file |-> csv, exit |-> 0]
       ELSE [file |-> [exists |-> TRUE, lines |-> Append(csv.lines, new_row)], exit |-> 0]

LocalInit ==
    /\ gist = Absent
    /\ LedgerIdle
    /\ ReadersIdle
    /\ RetryIdle
    /\ RunIdle
    /\ ClassIdle
    /\ AvgIdle
    /\ csv_file \in {[exists |-> FALSE, lines |-> <<>>], [exists |-> TRUE, lines |-> <<LocalHeader>>]}
    /\ calls = <<>>
    /\ TrainIdle
    /\ AgreeIdle
    /\ PruneIdle

\* one run of the script: GITHUB_SHA[:7], GITHUB_ACTOR (a user may be named
\* like a commit id), STATUS, TRAINED and RUN_ID come from the environment
RunAppendCommitHistory ==
    /\ Len(calls) < MaxLocalRuns
    /\ \E commit_id \in {"c1", "c2"}, author \in {"dev", "c1"},
          status \in {"success", "failure"}, trained_model \in {"true", "false"} :
          LET new_row == LocalRow(commit_id, author, status, trained_model, "r1")
              result == append_commitHistory(csv_file, new_row)
          IN /\ csv_file' = result.file
             /\ calls' = Append(calls, [row |-> new_row, exit |-> result.exit,
                                        before |-> csv_file])
    /\ UNCHANGED <<offUnit, offLocal>>

LocalNext == RunAppendCommitHistory

SpecLocal == LocalInit /\ [][LocalNext]_vars

-----------------------------------------------------------------------------
(* trigger_training.py main on its own, with a config that yaml loads as a  *)
(* mapping.  Strings are atomic here; " " stands for a blank string.        *)

\* str(x).strip()
StripWord(x) == IF x = " " THEN "" ELSE x

\* [str(x).strip() for x in train_scripts if str(x).strip()]
NonBlank(list) == SelectSeq([i \in DOMAIN list |-> StripWord(list[i])], LAMBDA x : x # "")

\* the payload main starts from (136-141)
InitialPayload == [should_train |-> FALSE, trained |-> FALSE, run_id |-> "", reason |-> ""]

\* mutant of trigger_training_main: a training command that succeeded counts
\* as trained whether or not its MLflow run was found
trigger_training_trusting(inp) ==
    LET cause == StripWord(inp.cause)
        train_scripts == NonBlank(inp.train_script)
        train_script == IF train_scripts # <<>> THEN train_scripts[1] ELSE ""
        payload ==
            IF cause = "" THEN [InitialPayload EXCEPT !.reason = "cause is empty"]
            ELSE IF train_script = "" THEN [InitialPayload EXCEPT !.reason = "train_script not set"]
            ELSE IF train_script \notin inp.files
                 THEN [InitialPayload EXCEPT !.reason = "train_script not found"]
            ELSE [should_train |-> TRUE, trained |-> TRUE, run_id |-> inp.found_run,
                  reason |-> "training executed"]
    IN [ran |-> TRUE, payload |-> payload, written |-> TRUE, exit |-> 0]

\* main (125-267)
trigger_training_main(inp) ==
    LET cause == StripWord(inp.cause)
        train_scripts == NonBlank(inp.train_script)
        train_script == IF train_scripts # <<>> THEN train_scripts[1] ELSE ""
        payload ==
            IF cause = "" THEN [InitialPayload EXCEPT !.reason = "cause is empty"]
            ELSE IF train_script = "" THEN [InitialPayload EXCEPT !.reason = "train_script not set"]
            ELSE IF train_script \notin inp.files
                 THEN [InitialPayload EXCEPT !.reason = "train_script not found"]
            ELSE IF inp.training = "raises"
                 THEN [should_train |-> TRUE, trained |-> FALSE, run_id |-> "",
                       reason |-> "training failed"]
            ELSE [should_train |-> TRUE, trained |-> inp.found_run # "",
                  run_id |-> inp.found_run, reason |-> "training executed"]
    IN [ran |-> TRUE, payload |-> payload, written |-> TRUE, exit |-> 0]

\* --cause as run_report.py passes it, project.train_script (a string is a
\* list of one), the files of the checkout, whether import mlflow, the
\* symlink, the MLproject file or the training command raise, and the run id
\* find_run_by_short_sha returns ("" when it finds none or fails)
TrainInputs ==
    [cause : {"", " ", "Script"},
     train_script : {<<>>, <<" ">>, <<"train.py">>, <<"", "train.py">>},
     files : {{}, {"train.py"}},
     training : {"ok", "raises"},
     found_run : {"", "r1"}]

TrainInit ==
    /\ gist = Absent
    /\ LedgerIdle
    /\ ReadersIdle
    /\ RetryIdle
    /\ RunIdle
    /\ ClassIdle
    /\ AvgIdle
    /\ LocalIdle
    /\ tt_in \in TrainInputs
    /\ tt_out = [ran |-> FALSE]
    /\ AgreeIdle
    /\ PruneIdle

RunTriggerTraining ==
    /\ ~tt_out.ran
    /\ tt_out' = trigger_training_main(tt_in)
    /\ UNCHANGED <<offUnit, offTrain, tt_in>>

TrainNext == RunTriggerTraining

SpecTrain == TrainInit /\ [][TrainNext]_vars

-----------------------------------------------------------------------------
(* phase2_step2.classify_cause next to detect_cause_mlops.classify_cause *)

\* p.replace("\\", "/").lstrip("./")
step2_normalize(path) == LStripChars(ReplaceBackslash(path), {".", "/"})

\* script_prefixes: the script and, when it lies in a directory, "<dir>/"
script_prefixes(script_path) ==
    IF script_path \in {NoneVal, <<>>} THEN {}
    ELSE LET sp == step2_normalize(script_path)
             parts == Segments(sp)
         IN {sp} \cup (IF Len(parts) >= 2
                       THEN {JoinSlash(SubSeq(parts, 1, Len(parts) - 1)) \o <<"/">>}
                       ELSE {})

\* the loop over changed (222-226) and the verdict (228-235)
step2_classify_cause(files, script_path, datas) ==
    LET changed == {step2_normalize(files[i]) : i \in DOMAIN files}
        script_hit == \E f \in changed : \E p \in script_prefixes(script_path) :
                          f = p \/ StartsWith(f, p)
        data_hit == \E f \in changed : \E j \in DOMAIN datas :
                          f = datas[j] \/ StartsWith(f, RStripChars(datas[j], {"/"}) \o <<"/">>)
    IN resolve_cause(script_hit, data_hit)

\* the changed files, one script path or none, the data paths; no repo hints
AgreeInit ==
    /\ gist = Absent
    /\ LedgerIdle
    /\ ReadersIdle
    /\ RetryIdle
    /\ RunIdle
    /\ AvgIdle
    /\ LocalIdle
    /\ TrainIdle
    /\ changed_files \in SeqsUpTo(ChangedChoices, MaxChanged)
    /\ script_paths \in SeqsUpTo(RuleChoices, 1)
    /\ data_paths \in SeqsUpTo(RuleChoices, MaxRules)
    /\ REPO_HINTS = {}
    /\ causeOut = <<>>
    /\ cpc = "ready"
    /\ norm_arg = <<>>
    /\ normalized = <<>>
    /\ step2_cause = <<>>
    /\ PruneIdle

\* both classifiers on the same arguments
ClassifyBoth ==
    /\ cpc = "ready"
    /\ causeOut' = classify_cause(changed_files, script_paths, data_paths, REPO_HINTS)
    /\ step2_cause' = step2_classify_cause(changed_files,
                          IF script_paths = <<>> THEN NoneVal ELSE script_paths[1], data_paths)
    /\ cpc' = "classified"
    /\ UNCHANGED <<changed_files, script_paths, data_paths, REPO_HINTS, norm_arg, normalized,
                   offAgree>>

AgreeNext == ClassifyBoth

SpecAgree == AgreeInit /\ [][AgreeNext]_vars

-----------------------------------------------------------------------------
(* prune_mlflow_runs.py main on its own.  An experiment of the MLflow store *)
(* is the set of the start times of its active runs.                        *)

MaxExps == 2

MAX_RUNS_PRIVATE == 90

\* client.search_runs(order_by = start_time ASC): the runs, oldest first
RECURSIVE search_runs(_)
search_runs(runs) ==
    IF runs = {} THEN <<>>
    ELSE LET first == CHOOSE t \in runs : \A u \in runs : t <= u
         IN <<first>> \o search_runs(runs \ {first})

\* mutant of prune_loop: without "if deleted >= 1: break"
RECURSIVE prune_loop_every_experiment(_, _, _, _)
prune_loop_every_experiment(exps, delete_run, e, deleted) ==
    IF e > Len(exps) THEN deleted
    ELSE LET runs == search_runs(exps[e])
         IN IF Len(runs) <= MAX_RUNS_PRIVATE
            THEN prune_loop_every_experiment(exps, delete_run, e + 1, deleted)
            ELSE prune_loop_every_experiment(exps, delete_run, e + 1,
                     IF delete_run[e] = "ok" THEN deleted \cup {<<e, runs[1]>>} ELSE deleted)

\* for exp in exps (56-78): deleted is the set of the runs deleted so far, of
\* which the code keeps the count
RECURSIVE prune_loop(_, _, _, _)
prune_loop(exps, delete_run, e, deleted) ==
    IF e > Len(exps) \/ Cardinality(deleted) >= 1 THEN deleted
    ELSE LET runs == search_runs(exps[e])
         IN IF Len(runs) <= MAX_RUNS_PRIVATE
            THEN prune_loop(exps, delete_run, e + 1, deleted)
            ELSE prune_loop(exps, delete_run, e + 1,
                     IF delete_run[e] = "ok" THEN deleted \cup {<<e, runs[1]>>} ELSE deleted)

\* (cfg.get("repo_visibility") or "public").strip().lower() (31), on the
\* values the configuration is given here
visibility_of(inp) ==
    CASE inp.repo_visibility = "" -> "public"
      [] inp.repo_visibility = " Private " -> "private"
      [] OTHER -> inp.repo_visibility

\* main (25-87)
prune_main(inp) ==
    IF visibility_of(inp) # "private" THEN [ran |-> TRUE, deleted |-> {}, exit |-> 0]
    ELSE IF inp.tracking_uri = "" THEN [ran |-> TRUE, deleted |-> {}, exit |-> 0]
    ELSE IF ~inp.mlflow_installed THEN [ran |-> TRUE, deleted |-> {}, exit |-> 0]
    ELSE IF inp.search_experiments = "raises" THEN [ran |-> TRUE, deleted |-> {}, exit |-> 0]
    ELSE [ran |-> TRUE, deleted |-> prune_loop(inp.exps, inp.delete_run, 1, {}), exit |-> 0]

\* the experiments of the store: none, 90 or 91 runs each
PruneStores ==
    UNION { [1..n -> {{}, 1..MAX_RUNS_PRIVATE, 1..(MAX_RUNS_PRIVATE + 1)}] : n \in 0..MaxExps }

PruneInit ==
    /\ gist = Absent
    /\ LedgerIdle
    /\ ReadersIdle
    /\ RetryIdle
    /\ RunIdle
    /\ ClassIdle
    /\ AvgIdle
    /\ LocalIdle
    /\ TrainIdle
    /\ AgreeIdle
    /\ \E exps \in PruneStores :
          pr_in \in [repo_visibility : {"private", " Private ", "public", ""},
                     tracking_uri : {"", "uri"},
                     mlflow_installed : BOOLEAN,
                     search_experiments : {"ok", "raises"},
                     exps : {exps},
                     delete_run : [DOMAIN exps -> {"ok", "raises"}]]
    /\ pr_out = [ran |-> FALSE]

RunPrune ==
    /\ ~pr_out.ran
    /\ pr_out' = prune_main(pr_in)
    /\ UNCHANGED <<offUnit, offPrune, pr_in>>

PruneNext == RunPrune

SpecPrune == PruneInit /\ [][PruneNext]_vars

-----------------------------------------------------------------------------
(* run_report.py main: the children it starts with sh(), in order.  Here   *)
(* the exit status of a child is an input of main.                         *)

ExitCodes == {0, 1, 2}

\* mutant of sh: subprocess.call, the exit status is ignored
sh_call(status, next) == next

\* sh(cmd) is subprocess.check_call(cmd): a non-zero exit status raises
\* CalledProcessError, which main does not catch
sh(status, next) == IF status = 0 THEN next ELSE "aborted"

Exited(name, status) == [name |-> name, status |-> status]

\* the options main puts on each child's command line
DetectArgv == {"--caller-root", "--sha", "--out"}
TrainArgv == {"--config", "--caller-root", "--cause", "--out"}
ExtractArgv == {"--config", "--run-id", "--out"}
AppendArgv == {"--gist-url", "--row-json"}
RenderArgv == {"--config", "--gist-url", "--out"}
RegistryArgv == {"--config", "--gist-url", "--out"}
SummaryArgv == {"--config", "--gist-url", "--svg-json", "--model-json", "--devops-json", "--artifacts-json"}
PruneArgv == {"--config"}

\* append_commitHistory.py: the duplicate-commit guard and the append, both on
\* commitHistory.csv in the working directory (the commit names stand for the
\* seven-character ids)
legacy_append(csv, commit_id) ==
    IF commit_id \in Range(csv) THEN csv ELSE Append(csv, commit_id)

Commits == {W("c1"), W("c2")}

RunInit ==
    /\ gist \in {Absent} \cup {Text(<<ReportFields, WriteRow(r, ReportFields)>>) : r \in OtherRows}
    /\ LedgerIdle
    /\ ReadersIdle
    /\ RetryIdle
    /\ ClassIdle
    /\ UnitIdle
    /\ commit \in Commits
    /\ private \in BOOLEAN
    /\ step = "detect"
    /\ argv = {}
    /\ log = <<>>
    /\ trainedNow = FALSE
    /\ localCsv \in {<<>>, <<W("c1")>>}

offRun == <<ledgerVars, retryVars, classVars, unitVars, commit, private, window, sharp_delta, metric, valsvg>>

\* 1) detect_cause_mlops.py
DetectStep ==
    /\ step = "detect"
    /\ argv' = DetectArgv
    /\ \E status \in ExitCodes :
          /\ log' = Append(log, Exited("detect", status))
          /\ step' = sh(status, "train")
    /\ UNCHANGED <<offRun, svg, summary, trainedNow, localCsv>>

\* 1.5) trigger_training.py; trained = bool(tr.get("trained"))
TrainStep ==
    /\ step = "train"
    /\ argv' = TrainArgv
    /\ \E status \in ExitCodes, t \in BOOLEAN :
          /\ log' = Append(log, Exited("train", status))
          /\ trainedNow' = IF status = 0 THEN t ELSE trainedNow
          /\ status # 0 => t = FALSE
          /\ step' = sh(status, IF t THEN "extract" ELSE "append")
    /\ UNCHANGED <<offRun, svg, summary, localCsv>>

\* extract_mlflow_details.py, only if is_trained == "true"
ExtractStep ==
    /\ step = "extract"
    /\ argv' = ExtractArgv
    /\ \E status \in ExitCodes :
          /\ log' = Append(log, Exited("extract", status))
          /\ step' = sh(status, "append")
    /\ UNCHANGED <<offRun, svg, summary, trainedNow, localCsv>>

\* 3) append_commitHistory.py
AppendStep ==
    /\ step = "append"
    /\ argv' = AppendArgv
    /\ \E status \in ExitCodes :
          /\ log' = Append(log, Exited("append", status))
          /\ localCsv' = IF status = 0 THEN legacy_append(localCsv, commit) ELSE localCsv
          /\ step' = sh(status, "render")
    /\ UNCHANGED <<offRun, svg, summary, trainedNow>>

\* 4) render_svg.py
RenderStep ==
    /\ step = "render"
    /\ argv' = RenderArgv
    /\ \E status \in ExitCodes :
          /\ log' = Append(log, Exited("render", status))
          /\ svg' = IF status = 0 THEN [ran |-> TRUE, pts |-> render_svg_points(gist, window, sharp_delta, metric)] ELSE svg
          /\ step' = sh(status, "registry")
    /\ UNCHANGED <<offRun, summary, trainedNow, localCsv>>

\* 5) fetch_registry_model.py
RegistryStep ==
    /\ step = "registry"
    /\ argv' = RegistryArgv
    /\ \E status \in ExitCodes :
          /\ log' = Append(log, Exited("registry", status))
          /\ step' = sh(status, "artifacts")
    /\ UNCHANGED <<offRun, svg, summary, trainedNow, localCsv>>

\* 5.5) list_run_artifacts, in main itself: the request may raise
ListArtifacts ==
    /\ step = "artifacts"
    /\ \E ok \in BOOLEAN : step' = IF ok THEN "summary" ELSE "aborted"
    /\ UNCHANGED <<offRun, svg, summary, trainedNow, localCsv, argv, log>>

\* 6) generate_summary_md.py
SummaryStep ==
    /\ step = "summary"
    /\ argv' = SummaryArgv
    /\ \E status \in ExitCodes :
          /\ log' = Append(log, Exited("summary", status))
          /\ summary' = IF status = 0 THEN generate_summary(gist, window, sharp_delta, metric) ELSE summary
          /\ step' = sh(status, IF private THEN "prune" ELSE "done")
    /\ UNCHANGED <<offRun, svg, trainedNow, localCsv>>

\* 7) prune_mlflow_runs.py, only if repo_visibility == "private"
PruneStep ==
    /\ step = "prune"
    /\ argv' = PruneArgv
    /\ \E status \in ExitCodes :
          /\ log' = Append(log, Exited("prune", status))
          /\ step' = sh(status, "done")
    /\ UNCHANGED <<offRun, svg, summary, trainedNow, localCsv>>

RunNext ==
    \/ DetectStep
    \/ TrainStep
    \/ ExtractStep
    \/ AppendStep
    \/ RenderStep
    \/ RegistryStep
    \/ ListArtifacts
    \/ SummaryStep
    \/ PruneStep

SpecRun == RunInit /\ [][RunNext]_vars

-----------------------------------------------------------------------------
(* run_report.py main with the detect child as its code makes it behave *)

\* the options of detect_cause_mlops.py main, all required=True
DetectRequired == {"--config", "--caller-root", "--sha", "--out"}

\* exit status of detect_cause_mlops.py main: argparse exits with 2 when a
\* required option is missing; otherwise the dbg dict reads workdir before
\* it is assigned and the UnboundLocalError ends the process with 1
detect_exit(options) == IF ~(DetectRequired \subseteq options) THEN 2 ELSE 1

PipeInit ==
    /\ gist \in {Absent} \cup {Text(<<ReportFields>> \o t) : t \in Tables(1)}
    /\ LedgerIdle
    /\ ReadersIdle
    /\ RetryIdle
    /\ ClassIdle
    /\ UnitIdle
    /\ commit \in Commits
    /\ private \in BOOLEAN
    /\ step = "detect"
    /\ argv = {}
    /\ log = <<>>
    /\ trainedNow = FALSE
    /\ localCsv \in {<<>>, <<W("c1")>>}

\* main builds the command line of step 1 and starts the child
SpawnDetect ==
    /\ step = "detect"
    /\ argv' = DetectArgv
    /\ step' = "detect_child"
    /\ UNCHANGED <<offRun, svg, summary, trainedNow, localCsv, log>>

\* the child runs to its exit and check_call returns or raises
DetectMain ==
    /\ step = "detect_child"
    /\ log' = Append(log, Exited("detect", detect_exit(argv)))
    /\ step' = sh(detect_exit(argv), "train")
    /\ UNCHANGED <<offRun, svg, summary, trainedNow, localCsv, argv>>

PipeNext ==
    \/ SpawnDetect
    \/ DetectMain

SpecPipe == PipeInit /\ [][PipeNext]_vars

-----------------------------------------------------------------------------
(* Claims about the ledger writers *)

\* does the stored table hold a data row of this commit?
HasShaRow(content, sha) ==
    /\ HasText(content)
    /\ \E i \in DOMAIN DictReaderRows(content.recs) :
          Get(DictReaderRows(content.recs)[i], "commit_sha") = sha

\* C1: once two CI runs for different commits have both completed their
\* append (read, rebuild, PATCH answered with success), the stored ledger
\* holds a row for each of the two commits, whatever the interleaving.
C1_NoCompletedAppendLost ==
    \A p, q \in Runs :
        (p # q /\ pc[p] = "done" /\ pc[q] = "done")
            => HasShaRow(gist, Sha(p)) /\ HasShaRow(gist, Sha(q))

-----------------------------------------------------------------------------
(* Claims about the readers *)

\* the row at ledger position pos is followed by a later row of the same commit
Superseded(pos, sha) ==
    LET rows == ReaderRows(gist)
    IN \E i, j \in DOMAIN rows :
          /\ i < j
          /\ rows[i]["#pos"] = pos
          /\ sha # Empty
          /\ rows[j]["commit_sha"] = sha

\* C4: for a commit with several rows only the most recently appended row is
\* authoritative: no trend point and no latest-model record of a reader comes
\* from an earlier row of that commit, whatever the timestamps and is_trained
\* values of the rows.
C4_OnlyLastRowOfCommitCounts ==
    /\ svg.ran => \A k \in DOMAIN svg.pts : ~Superseded(svg.pts[k].pos, svg.pts[k].sha)
    /\ summary.ran =>
          /\ \A k \in DOMAIN summary.pts :
                ~Superseded(summary.pts[k].pos, summary.pts[k].sha)
          /\ \A k \in DOMAIN summary.latest :
                ~Superseded(summary.latest[k]["#pos"], summary.latest[k]["commit_sha"])

ShaAt(rows, i) == rows[i]["commit_sha"]

FirstAt(rows, sha) == CHOOSE i \in DOMAIN rows : ShaAt(rows, i) = sha /\ \A j \in 1..(i - 1) : ShaAt(rows, j) # sha

LastAt(rows, sha) == CHOOSE i \in DOMAIN rows : ShaAt(rows, i) = sha /\ \A j \in (i + 1)..Len(rows) : ShaAt(rows, j) # sha

\* C5 (as claimed): deduplication keeps exactly one row per distinct
\* commit_sha, the last row carrying it, and the kept rows are in the order in
\* which their commit_shas first appear in the table.
C5_DedupInFirstAppearanceOrder ==
    summary.ran =>
        LET in == summary.all
            out == summary.trained
            shas == {ShaAt(in, i) : i \in DOMAIN in}
        IN /\ Len(out) = Cardinality(shas)
           /\ \A sha \in shas : \E k \in DOMAIN out : out[k] = in[LastAt(in, sha)]
           /\ \A k, l \in DOMAIN out :
                 k < l => FirstAt(in, ShaAt(out, k)) < FirstAt(in, ShaAt(out, l))

\* C5 (amended): deduplication keeps, for every non-empty commit_sha, exactly
\* the last row carrying it, keeps every row whose commit_sha is empty, and
\* leaves the kept rows in the order they have in the table (the order of
\* their last occurrences).
C5_DedupKeepsLastInTableOrder ==
    summary.ran =>
        LET in == summary.all
            out == summary.trained
            keep == {i \in DOMAIN in :
                       \/ ShaAt(in, i) = Empty
                       \/ \A j \in (i + 1)..Len(in) : ShaAt(in, j) # ShaAt(in, i)}
        IN /\ Len(out) = Cardinality(keep)
           /\ \A k \in DOMAIN out :
                 out[k] = in[CHOOSE i \in keep : Cardinality({m \in keep : m <= i}) = k]

\* the summary deduplicated a table in which a commit reappears after another one
C5_Witness ==
    /\ summary.ran
    /\ \E i, j, k \in DOMAIN summary.all :
          /\ i < j /\ j < k
          /\ ShaAt(summary.all, i) # Empty
          /\ ShaAt(summary.all, i) = ShaAt(summary.all, k)
          /\ ShaAt(summary.all, j) \notin {Empty, ShaAt(summary.all, i)}

-----------------------------------------------------------------------------
(* Claims about the upload loop *)

\* C2: on a write conflict every retry repeats the whole read-modify-write
\* cycle, so the content a retry writes is built from a read made after the
\* previous attempt and reflects every write that landed since.
C2_RetryWritesFreshContent == sentFresh

\* C3: the loop makes at most six attempts, sleeps 2^i seconds after the i-th
\* conflict, 1+2+4+8+16 = 31 seconds at most in total, and after six
\* conflicts fails with the error of the last attempt.
C3_RetryBoundedBackoff ==
    /\ attempt <= MaxAttempts
    /\ slept = Pow2(attempt) - 1
    /\ slept <= 31
    /\ (rpc = "raised" /\ attempt = MaxAttempts) => last_err = "409"

-----------------------------------------------------------------------------
(* Claims about the cause classifier *)

\* the normalized changed paths and the targets of the truthy rules
NormChanged == {normalize_repo_rel_path(changed_files[i], REPO_HINTS) : i \in DOMAIN changed_files}

TargetsOf(paths) ==
    {RStripChars(normalize_repo_rel_path(paths[j], REPO_HINTS), {"/"}) :
        j \in {k \in DOMAIN paths : paths[k] # <<>>}}

SomeScriptHit == \E f \in NormChanged, t \in TargetsOf(script_paths) : f = t

SomeDataHit ==
    \E f \in NormChanged, t \in TargetsOf(data_paths) :
        t # <<>> /\ (f = t \/ (Len(f) > Len(t) /\ SubSeq(f, 1, Len(t) + 1) = t \o <<"/">>))

\* C9: classify returns Both when some changed file hits a script rule and
\* some changed file hits a data rule, Script when only script rules are hit,
\* Data when only data rules are hit and the empty cause when nothing is
\* hit; an empty changed set and empty rule lists give the empty cause, and
\* every input gives one of the four causes.
C9_CauseFollowsHits ==
    cpc = "classified" =>
        /\ causeOut \in {W("Both"), W("Script"), W("Data"), Empty}
        /\ (SomeScriptHit /\ SomeDataHit) => causeOut = W("Both")
        /\ (SomeScriptHit /\ ~SomeDataHit) => causeOut = W("Script")
        /\ (~SomeScriptHit /\ SomeDataHit) => causeOut = W("Data")
        /\ (~SomeScriptHit /\ ~SomeDataHit) => causeOut = Empty
        /\ changed_files = <<>> => causeOut = Empty
        /\ (script_paths = <<>> /\ data_paths = <<>>) => causeOut = Empty

\* two changed files, one hitting only the script rule, the other only the
\* data rule, classified as Both
C9_Witness ==
    /\ cpc = "classified"
    /\ causeOut = W("Both")
    /\ changed_files = << <<"a", "b">>, <<"a", "/", "b">> >>
    /\ script_paths = << <<"a", "/", "b">> >>
    /\ data_paths = << <<"a", "/">> >>

\* C10: a script hit is reported only when some changed file's normalized
\* path equals the normalized path of a script rule; a script rule that names
\* a directory of a changed file, or is only a prefix of its path, gives none.
C10_ScriptHitOnlyOnEquality ==
    (cpc = "classified" /\ causeOut \in {W("Script"), W("Both")})
        => \E f \in NormChanged, t \in TargetsOf(script_paths) : f = t

\* the rule src/-like directory "a/" with the changed file "a/b" inside it,
\* and the rule "a" with the changed file "ab": no script hit
C10_Witness ==
    /\ cpc = "classified"
    /\ causeOut = Empty
    /\ data_paths = <<>>
    /\ \/ script_paths = << <<"a", "/">> >> /\ changed_files = << <<"a", "/", "b">> >>
       \/ script_paths = << <<"a">> >> /\ changed_files = << <<"a", "b">> >>

-----------------------------------------------------------------------------
(* Claims about run_report.py main *)

\* C7: with git, the gist and the training subsystem all working, one
\* run_report invocation for commit c runs to completion and has appended to
\* the ledger in the gist a row whose commit_sha is c (with the cause of the
\* detect step and the training results of this run).
C7_RunAppendsRowForCommit ==
    step \in {"done", "aborted"} =>
        /\ step = "done"
        /\ HasShaRow(gist, commit)

\* the order of the children for a run that trains or not, in a private
\* repository or not
StepOrder(t, pr) ==
    <<"detect", "train">> \o (IF t THEN <<"extract">> ELSE <<>>)
        \o <<"append", "render", "registry", "summary">>
        \o (IF pr THEN <<"prune">> ELSE <<>>)

\* C8: the children run one after another in the order detect, train,
\* (extract, when trained), append, render, registry, summary, (prune, when
\* private); each one starts only after the one before it exited with status
\* 0, a non-zero exit aborts the run, and the trend is computed only after the
\* append step has completed.
C8_StepsInOrderStopAtFailure ==
    /\ \E t \in BOOLEAN :
          /\ (Len(log) >= 2 /\ log[2].status = 0) => t = trainedNow
          /\ Len(log) <= Len(StepOrder(t, private))
          /\ \A i \in DOMAIN log : log[i].name = StepOrder(t, private)[i]
    /\ \A i \in 1..(Len(log) - 1) : log[i].status = 0
    /\ (log # <<>> /\ log[Len(log)].status # 0) => step = "aborted"
    /\ svg.ran => \E i \in DOMAIN log : log[i].name = "append" /\ log[i].status = 0
    /\ step = "done" =>
          /\ Len(log) = Len(StepOrder(trainedNow, private))
          /\ \A i \in DOMAIN log : log[i].status = 0

\* a trained run in a private repository that ran all eight children
C8_Witness ==
    /\ step = "done"
    /\ Len(log) = 8
    /\ svg.ran
    /\ summary.ran

\* path is the directory (or file) dir itself or lies inside it
InsideOrSame(path, dir) ==
    /\ Len(Segments(dir)) <= Len(Segments(path))
    /\ \A k \in DOMAIN Segments(dir) : Segments(path)[k] = Segments(dir)[k]

\* C11: a data hit is reported exactly when some changed file is the path of
\* a data rule or lies inside it taken as a directory, a trailing "/" on the
\* rule making no difference; a file that only shares a name prefix with the
\* rule is no hit.
C11_DataHitOnSameOrInside ==
    cpc = "classified" =>
        (causeOut \in {W("Data"), W("Both")}
            <=> \E f \in NormChanged, j \in DOMAIN data_paths :
                    InsideOrSame(f, RStripChars(normalize_repo_rel_path(data_paths[j], REPO_HINTS), {"/"})))

\* the rule "a/" with the changed file "a/b" gives Data; the rule "a" with the
\* changed file "ab" gives nothing
C11_Witness ==
    /\ cpc = "classified"
    /\ script_paths = <<>>
    /\ \/ data_paths = << <<"a", "/">> >> /\ changed_files = << <<"a", "/", "b">> >> /\ causeOut = W("Data")
       \/ data_paths = << <<"a">> >> /\ changed_files = << <<"a", "b">> >> /\ causeOut = Empty

\* the lists that are permutations of the changed-file list
PermutationsOf(files) ==
    {[i \in DOMAIN files |-> files[pi[i]]] : pi \in Permutations(DOMAIN files)}

\* C12: classify is order-independent: every permutation of the changed-file
\* list gives the same cause and the same script_hit and data_hit flags.
C12_ClassifyOrderIndependent ==
    cpc = "classified" =>
        LET hits == classify_hits(changed_files, script_paths, data_paths, REPO_HINTS)
        IN \A q \in PermutationsOf(changed_files) :
               LET hits_q == classify_hits(q, script_paths, data_paths, REPO_HINTS)
               IN /\ resolve_cause(hits_q.script_hit, hits_q.data_hit) = causeOut
                  /\ hits_q = hits

\* two different changed files of which only the first hits the script rule
C12_Witness ==
    /\ cpc = "classified"
    /\ changed_files = << <<"a">>, <<"a", "b">> >>
    /\ script_paths = << <<"a">> >>
    /\ data_paths = <<>>
    /\ causeOut = W("Script")

\* a path whose basename is a noise name or that lies inside a directory
\* named __MACOSX
IsNoisePath(path) ==
    \/ Segments(path)[Len(Segments(path))] \in {DSStore, ThumbsDb, DesktopIni}
    \/ \E k \in 1..(Len(Segments(path)) - 1) : Segments(path)[k] = MacOsx

WithoutNoise(files) ==
    LET Keep(f) == ~IsNoisePath(f) IN SelectSeq(files, Keep)

\* C13: changed paths with a noise basename (.DS_Store, Thumbs.db,
\* desktop.ini) or inside a directory named __MACOSX are dropped before
\* classification, so the cause is the cause of the remaining paths, and a
\* commit that changes only such paths gets the empty cause.
C13_NoisePathsDoNotCount ==
    cpc = "classified" =>
        /\ causeOut = classify_cause(WithoutNoise(changed_files), script_paths, data_paths, REPO_HINTS)
        /\ (\A i \in DOMAIN changed_files : IsNoisePath(changed_files[i])) => causeOut = Empty

\* the timestamp_local of the ledger row a point was computed from
StampOfPoint(pt) ==
    LET rows == ReaderRows(gist)
        i == CHOOSE n \in DOMAIN rows : rows[n]["#pos"] = pt.pos
    IN Get(rows[i], "timestamp_local")

TrendShape(pts, w) ==
    /\ Len(pts) <= w
    /\ \A k, l \in DOMAIN pts : (k < l /\ pts[k].sha # Empty) => pts[k].sha # pts[l].sha
    /\ \A k, l \in DOMAIN pts : k < l => StampRank(StampOfPoint(pts[k])) <= StampRank(StampOfPoint(pts[l]))

\* C14: the trend of either reader comes from the trained rows, deduplicated
\* by commit_sha, in ascending timestamp order, cut to the last `window` rows:
\* it has at most `window` points, no commit_sha in two points, and the
\* points are in non-decreasing timestamp order.
C14_TrendWindowedDedupedSorted ==
    /\ svg.ran => TrendShape(svg.pts, window)
    /\ summary.ran => TrendShape(summary.pts, window)

\* does the row carry a parseable value of the metric?
HasMetricValue(r) == safe_float(KvGet(parse_kv(Get(r, "mlflow_metrics_kv")), metric)).ok

MinOf(a, b) == IF a <= b THEN a ELSE b

\* C15: a trained row without the metric key yields no point and takes no
\* window slot: the trend has min(window, number of deduplicated trained rows
\* with a parseable metric value) points.
C15_SkippedRowsTakeNoSlot ==
    summary.ran =>
        Len(summary.pts)
            = MinOf(window, Cardinality({i \in DOMAIN summary.trained : HasMetricValue(summary.trained[i])}))

\* the two-digit decimal a double of the model is nearest to, in hundredths
Hundredths(x) == (x + Ulps \div 2) \div Ulps

\* the deltas and flags of a point list, computed on the decimal values
DecimalDeltas(pts, sd) ==
    \A i \in DOMAIN pts :
        IF i = 1 THEN pts[i].delta = 0 /\ ~pts[i].sharp
        ELSE /\ pts[i].delta = pts[i].val - pts[i - 1].val
             /\ pts[i].sharp <=> Abs(Hundredths(pts[i].val) - Hundredths(pts[i - 1].val)) >= Hundredths(sd)

\* C16: for the retained points delta_0 = 0 and is_sharp_0 = false; for i > 0
\* delta_i = v_i - v_(i-1) and is_sharp_i holds exactly when |delta_i| >=
\* sharp_delta, a difference equal to sharp_delta counting as sharp.
C16_DeltaAndSharpFlags ==
    /\ svg.ran => DecimalDeltas(svg.pts, sharp_delta)
    /\ summary.ran => DecimalDeltas(summary.pts, sharp_delta)

\* the metric value of a ledger row, as written in its mlflow_metrics_kv cell
MetricWord(r) == KvGet(parse_kv(Get(r, "mlflow_metrics_kv")), metric)

GoodValue(r) == Len(MetricWord(r)) = 1 /\ MetricWord(r)[1] \in NumWords

\* every row with a number for the metric gives exactly one point carrying
\* that number, rows without one give none, and each delta is taken against
\* the point before, i.e. the last row before it that had a number
BadRowsOnlySkipped(pts) ==
    LET rows == ReaderRows(gist)
    IN /\ {pts[k].pos : k \in DOMAIN pts} = {rows[i]["#pos"] : i \in {n \in DOMAIN rows : GoodValue(rows[n])}}
       /\ Len(pts) = Cardinality({n \in DOMAIN rows : GoodValue(rows[n])})
       /\ \A k \in DOMAIN pts : \A i \in DOMAIN rows :
             rows[i]["#pos"] = pts[k].pos => pts[k].val = NumValue(MetricWord(rows[i])[1])
       /\ \A k \in DOMAIN pts : pts[k].val # 0
       /\ \A k \in DOMAIN pts : k > 1 => pts[k].delta = pts[k].val - pts[k - 1].val

\* C17: a row whose metric value is missing, empty, "NA" or not a number gives
\* no trend point and does not stop the computation: every other row gives
\* its point, the next delta is taken against the last valid point, and no
\* point with value zero stands for the bad row.
C17_BadValuesSkippedNotZero ==
    /\ svg.ran => BadRowsOnlySkipped(svg.pts)
    /\ summary.ran => BadRowsOnlySkipped(summary.pts)

\* both readers ran on a ledger whose second row has "NA" for the metric,
\* between two rows with numbers
C17_Witness ==
    /\ svg.ran
    /\ summary.ran
    /\ Len(ReaderRows(gist)) = 3
    /\ MetricWord(ReaderRows(gist)[2]) = W("NA")
    /\ Len(svg.pts) = 2
    /\ Len(summary.pts) = 2
    /\ summary.pts[2].delta = summary.pts[2].val - NumValue(MetricWord(ReaderRows(gist)[1])[1])

\* C18: with report.highlight_metric absent or empty, every script that
\* computes a trend ends with a fatal error before it reads or writes the
\* gist, and none of them puts a default metric name in its place.
C18_MissingMetricIsFatal ==
    metric_of(metric) = Empty =>
        /\ svg \in {NotRun, MissingMetric}
        /\ summary \in {NotRun, MissingMetric}
        /\ valsvg \in {NotRun, MissingMetric}

\* C19: normalizing is idempotent: for every path and every hint set, a
\* second call on the result of the first returns it unchanged.
C19_NormalizeIdempotent ==
    Len(normalized) >= 2 => normalized[2] = normalized[1]

\* a path segment that is a plain name
IsName(seg) == seg # <<>> /\ \A i \in DOMAIN seg : seg[i] \in {"r", "a"}

\* the path has the form ../<repo>/<rest>: three segments or more, ".." first,
\* the others plain names
IsParentRepoPath(path) ==
    /\ Len(Segments(path)) >= 3
    /\ Segments(path)[1] = <<".", ".">>
    /\ \A i \in 2..Len(Segments(path)) : IsName(Segments(path)[i])

\* <rest>: the path without its first two segments
RestOf(path) == JoinSlash(SubSeq(Segments(path), 3, Len(Segments(path))))

\* C20: every path ../<repo>/<rest> is normalized to <rest>, whatever the
\* repository name and the hint set, the empty one included.
C20_ParentRepoPrefixDropped ==
    (Len(normalized) >= 1 /\ IsParentRepoPath(norm_arg)) => normalized[1] = RestOf(norm_arg)

\* the segments of a path that are followed by a "/"
InnerSegments(path) == SubSeq(Segments(path), 1, Len(Segments(path)) - 1)

\* C21: for every path and every hint set the normalized path holds no
\* backslash, does not begin with "./" and has no "../" segment, and the empty
\* path is normalized to the empty path.
C21_NormalizedShape ==
    Len(normalized) >= 1 =>
        /\ \A i \in DOMAIN normalized[1] : normalized[1][i] # "\\"
        /\ ~StartsWith(normalized[1], <<".", "/">>)
        /\ \A k \in DOMAIN InnerSegments(normalized[1]) :
               InnerSegments(normalized[1])[k] # <<".", ".">>
        /\ (norm_arg = <<>> => normalized[1] = <<>>)

\* a non-empty path without surrounding whitespace that uses "/" separators,
\* does not begin with "./" or "../" and whose first segment is no repo hint
IsPlainPath(path, repo_hints) ==
    /\ path # <<>>
    /\ path[1] # " " /\ path[Len(path)] # " "
    /\ \A i \in DOMAIN path : path[i] # "\\"
    /\ ~StartsWith(path, <<".", "/">>)
    /\ ~StartsWith(path, <<".", ".", "/">>)
    /\ Segments(path)[1] \notin repo_hints

\* C22: normalizing rewrites only backslashes, a leading "./", a leading
\* "../<repo>/" and a first segment that is a repo hint: every other path is
\* returned unchanged (so no two of them are normalized to the same path).
C22_PlainPathUnchanged ==
    (Len(normalized) >= 1 /\ IsPlainPath(norm_arg, REPO_HINTS)) => normalized[1] = norm_arg

\* the values at the positions lo .. hi of a list (positions counted from 1)
RECURSIVE TotalOf(_, _, _)
TotalOf(values, lo, hi) == IF lo > hi THEN 0 ELSE values[hi] + TotalOf(values, lo, hi - 1)

\* the first position of the window that ends at position i
WindowStart(i, size) == IF i - size + 1 >= 1 THEN i - size + 1 ELSE 1

\* C23: moving_average returns a list as long as vals whose i-th element is
\* the mean of the window of at most k values ending at i, the window being
\* shorter at the start of the list and no element missing; k = 3 and
\* [1, 2, 3, 4] give [1, 1.5, 2, 3].
C23_MovingAverageIsWindowMean ==
    ma_out.ran =>
        /\ Len(ma_out.out) = Len(ma_vals)
        /\ \A i \in DOMAIN ma_vals :
               /\ ma_out.out[i] # NoAverage
               /\ ma_out.out[i].num * (i - WindowStart(i, ma_k) + 1)
                    = TotalOf(ma_vals, WindowStart(i, ma_k), i) * ma_out.out[i].den
        /\ (ma_k = 3 /\ ma_vals = <<1, 2, 3, 4>>) =>
               ma_out.out = << [num |-> 1, den |-> 1], [num |-> 3, den |-> 2],
                               [num |-> 2, den |-> 1], [num |-> 3, den |-> 1] >>

\* the example of the claim has been computed
C23_Witness ==
    /\ ma_out.ran
    /\ ma_k = 3
    /\ ma_vals = <<1, 2, 3, 4>>
    /\ ma_out.out[2] = [num |-> 3, den |-> 2]

\* the rows a list of points stands for, with their sharp flags, in order
PointsShown(pts) == [i \in DOMAIN pts |-> <<pts[i].pos, pts[i].sharp>>]

\* C24: for the same ledger and config the points of the summary's
\* performance table are the points drawn in the trend SVG: the same rows in
\* the same order with the same sharp flags.
C24_SummaryTableMatchesSvg ==
    (svg.ran /\ summary.ran) => PointsShown(summary.pts) = PointsShown(svg.pts)

\* one step of the upload loop as the claim allows it
ErrorStepAllowed ==
    /\ (rpc = "loop" /\ last_err' \notin {"none", "409"}) =>
           (rpc' = "raised" /\ slept' = slept /\ attempt' = attempt /\ svgFile' = svgFile)
    /\ (rpc = "loop" /\ attempt' # attempt) => last_err' = "409"
    /\ rpc = "raised" =>
           (rpc' = "raised" /\ slept' = slept /\ attempt' = attempt /\ svgFile' = svgFile)

RowsOfCommit(file, commit_id) ==
    {i \in 2..Len(file.lines) : file.lines[i][2] = commit_id}

\* the file as the j-th run left it
FileAfter(j) == IF j = Len(calls) THEN csv_file ELSE calls[j + 1].before

\* the first run made for a commit id
FirstCallFor(commit_id) ==
    CHOOSE j \in DOMAIN calls :
        /\ calls[j].row[2] = commit_id
        /\ \A h \in 1..(j - 1) : calls[h].row[2] # commit_id

\* C26: a run whose commit id is already in commitHistory.csv leaves the file
\* unchanged and exits with status 0, so after any sequence of runs the file
\* holds at most one data row per commit id, the first one written for it.
C26_LocalAppendGuarded ==
    /\ \A j \in DOMAIN calls :
           RowsOfCommit(calls[j].before, calls[j].row[2]) # {} =>
               (FileAfter(j) = calls[j].before /\ calls[j].exit = 0)
    /\ \A i \in 2..Len(csv_file.lines) :
           /\ RowsOfCommit(csv_file, csv_file.lines[i][2]) = {i}
           /\ csv_file.lines[i] = calls[FirstCallFor(csv_file.lines[i][2])].row

\* two runs for commit c1 that differ in STATUS: the file holds the first row only
C26_Witness ==
    /\ Len(calls) = 2
    /\ calls[1].row[2] = "c1" /\ calls[2].row[2] = "c1"
    /\ calls[1].row[5] = "success" /\ calls[2].row[5] = "failure"
    /\ Len(csv_file.lines) = 2
    /\ csv_file.lines[2] = calls[1].row

\* the position of a column in a header
ColumnOf(header, name) == CHOOSE j \in DOMAIN header : header[j] = name

\* C27: the table append_csv_row produces has exactly the given fieldnames as
\* its columns: a column of the stored header that fieldnames omits is
\* dropped from every existing row without an error, and a column that
\* fieldnames names but the stored header lacks (because an earlier append
\* dropped it) is empty in every existing row: the values stay lost.
C27_ColumnsAreFieldnames ==
    \A p \in Runs :
        pc[p] = "appended" =>
            LET f == FieldsOf(script[p])
                out == updated[p].recs
            IN /\ updated[p].present
               /\ out[1] = f
               /\ \A i \in DOMAIN out : Len(out[i]) = Len(f)
               /\ HasText(existing[p]) =>
                     \A i \in 2..(Len(out) - 1) : \A j \in DOMAIN f :
                         f[j] \notin Range(existing[p].recs[1]) => out[i][j] = Empty

\* a row written by phase2_step2.py with script_path train.py has gone through
\* an append of phase2_step1.py, which dropped the column, and is being
\* rewritten by phase2_step2.py, which names it again
C27_Witness ==
    \E p \in Runs :
        /\ pc[p] = "appended"
        /\ script[p] = "step2"
        /\ HasText(existing[p])
        /\ existing[p].recs[1] = Step1Fields
        /\ existing[p].recs[2][ColumnOf(Step1Fields, "cause")] = W("Script")
        /\ updated[p].recs[2][ColumnOf(Step2Fields, "cause")] = W("Script")
        /\ updated[p].recs[2][ColumnOf(Step2Fields, "script_path")] = Empty

\* the script main would run: the first non-blank entry of project.train_script
ConfiguredScript == IF NonBlank(tt_in.train_script) # <<>> THEN NonBlank(tt_in.train_script)[1] ELSE ""

C29_ClassifiersAgree ==
    cpc = "classified" => step2_cause = causeOut

\* the experiments that hold more runs than the limit
OverLimit == {e \in DOMAIN pr_in.exps : Cardinality(pr_in.exps[e]) > MAX_RUNS_PRIVATE}

\* C30: one prune invocation deletes at most one MLflow run over all
\* experiments, and only the oldest run of an experiment with more than 90
\* runs; it deletes nothing when the repository is not private, the tracking
\* URI is missing or no experiment has more than 90 runs; and its exit
\* status is 0 even when a deletion fails.
C30_PruneAtMostOneOldest ==
    pr_out.ran =>
        /\ Cardinality(pr_out.deleted) <= 1
        /\ \A d \in pr_out.deleted :
               /\ d[1] \in OverLimit
               /\ d[2] \in pr_in.exps[d[1]]
               /\ \A t \in pr_in.exps[d[1]] : d[2] <= t
        /\ (visibility_of(pr_in) # "private" \/ pr_in.tracking_uri = "" \/ OverLimit = {}) =>
               pr_out.deleted = {}
        /\ pr_out.exit = 0

\* the deletion failed in the first experiment over the limit and the oldest
\* run of the second one was deleted
C30_Witness ==
    /\ pr_out.ran
    /\ OverLimit = {1, 2}
    /\ pr_in.delete_run[1] = "raises"
    /\ pr_out.deleted = {<<2, 1>>}
    /\ pr_out.exit = 0

====
